---- MODULE Spec2Model ----
(***************************************************************************)
(* A model of dfuse-io/fluxdb: the key/value store adapter (KVStore and    *)
(* its mutation batch), the temporal read and write path of FluxDB, the    *)
(* Sharder and the Shard Injector.                                         *)
(*                                                                         *)
(* A Go string or []byte is a sequence of small naturals ("bytes"), so a   *)
(* key is compared byte by byte as the backend compares it.                *)
(***************************************************************************)
EXTENDS Integers, Sequences, FiniteSets, TLC

\* ------------------------------------------------------------------------
\* Bounds of the model
\* ------------------------------------------------------------------------

\* Block heights run over 1..MaxHeight.
MaxHeight == 3

\* ------------------------------------------------------------------------
\* Program constants
\* ------------------------------------------------------------------------

TblPrefixRows == 0
TblPrefixIndex == 1
TblPrefixLast == 3

\* kv.Unlimited, the scan limit that means "no limit".
Unlimited == 0

\* The count above which FlushIfFull flushes.
maxMutationCount == 100

\* The first byte of every singlet key and of every tablet key (the
\* collection of the entity); both are above every table prefix byte.
SingletCollection == 5
TabletCollection == 6

\* The heights are stored on one fixed-width byte; MaxHeightByte - h is the
\* order-inverting form.
MaxHeightByte == 9

Min(a, b) == IF a < b THEN a ELSE b

\* ------------------------------------------------------------------------
\* Byte strings
\* ------------------------------------------------------------------------

\* bytes.Compare(a, b) < 0
RECURSIVE LexLess(_, _)
LexLess(a, b) ==
    IF b = <<>> THEN FALSE
    ELSE IF a = <<>> THEN TRUE
    ELSE IF a[1] # b[1] THEN a[1] < b[1]
    ELSE LexLess(Tail(a), Tail(b))

\* strings.HasPrefix(s, prefix)
HasPrefix(s, prefix) ==
    /\ Len(prefix) <= Len(s)
    /\ SubSeq(s, 1, Len(prefix)) = prefix

\* A nil []byte, which is no byte string (an empty value is <<>>).
Nil == <<-1>>

\* ------------------------------------------------------------------------
\* Key codec
\* ------------------------------------------------------------------------

packKey(table, key) == <<table>> \o key

\* unpackKey returns the table byte and string(key): the whole packed key,
\* table byte included.
unpackKey(key) == <<key[1], key>>

\* ------------------------------------------------------------------------
\* The backend (kv.KVStore): a set of items [key, value], one per key
\* ------------------------------------------------------------------------

Item(k, v) == [key |-> k, value |-> v]

Put(items, k, v) == {i \in items : i.key # k} \cup {Item(k, v)}

HasKey(items, k) == \E i \in items : i.key = k

Get(items, k) == IF HasKey(items, k) THEN (CHOOSE i \in items : i.key = k).value ELSE Nil

RECURSIVE SortByKey(_)
SortByKey(S) ==
    IF S = {} THEN <<>>
    ELSE LET m == CHOOSE x \in S : \A y \in S : ~LexLess(y.key, x.key)
         IN <<m>> \o SortByKey(S \ {m})

Limited(s, limit) == IF limit = Unlimited THEN s ELSE SubSeq(s, 1, Min(limit, Len(s)))

\* Scan(start, end, limit): the items with start <= key < end, in key order.
Scan(items, start, end, limit) ==
    Limited(SortByKey({i \in items : ~LexLess(i.key, start) /\ LexLess(i.key, end)}), limit)

\* Prefix(prefix, limit): the items whose key starts with prefix, in key order.
Prefix(items, prefix, limit) ==
    Limited(SortByKey({i \in items : HasPrefix(i.key, prefix)}), limit)

\* BatchGet(keys): one item per requested key, in request order; a missing
\* key yields a nil value.
BatchGet(items, keys) == [n \in 1..Len(keys) |-> Item(keys[n], Get(items, keys[n]))]

\* ------------------------------------------------------------------------
\* KVStore: the read operations
\*
\* A row callback is a function from the key it is handed to what it
\* returns: "nil", "BreakScan" or "error".  A read operation yields the rows
\* it handed to the callback, in order, and its own error.
\* ------------------------------------------------------------------------

BreakScan == "BreakScan"

\* Any key a callback can be handed.
Keys == Seq(Int)

AlwaysBreak == [k \in Keys |-> BreakScan]
AlwaysNil == [k \in Keys |-> "nil"]

\* A callback that answers what at key and nil at every other key.
AnswerAt(key, what) == [k \in Keys |-> IF k = key THEN what ELSE "nil"]

\* A faulty loop that returns the callback's BreakScan as its error.
DeliverBreakAsError(its, onRow) ==
    LET cbKey(n) == unpackKey(its[n].key)[2]
        stops == {n \in 1..Len(its) : onRow[cbKey(n)] # "nil"}
        stop == IF stops = {} THEN Len(its) + 1
                ELSE CHOOSE n \in stops : \A m \in stops : n <= m
    IN [rows |-> [n \in 1..Min(stop, Len(its)) |-> Item(cbKey(n), its[n].value)],
        err |-> IF stop <= Len(its) THEN onRow[cbKey(stop)] ELSE "nil"]

\* The loop `for itr.Next() { _, key := unpackKey(item.Key); err := onRow(key,
\* item.Value); ... }` shared by fetchKeys, scanPrefix and scanRange: the
\* callback is called on each item until it returns something else than nil;
\* BreakScan ends the loop without error.
Deliver(its, onRow) ==
    LET cbKey(n) == unpackKey(its[n].key)[2]
        stops == {n \in 1..Len(its) : onRow[cbKey(n)] # "nil"}
        stop == IF stops = {} THEN Len(its) + 1
                ELSE CHOOSE n \in stops : \A m \in stops : n <= m
    IN [rows |-> [n \in 1..Min(stop, Len(its)) |-> Item(cbKey(n), its[n].value)],
        err |-> IF stop <= Len(its) /\ onRow[cbKey(stop)] # BreakScan
                THEN "error" ELSE "nil"]

\* A faulty scanRange that scans to the end of the table whatever keyEnd.
scanRangeNoEnd(items, table, keyStart, keyEnd, limit, onRow) ==
    Deliver(Scan(items, packKey(table, keyStart), <<table + 1>>, limit), onRow)

\* A faulty scanRange that scans from the start of the table.
scanRangeNoStart(items, table, keyStart, keyEnd, limit, onRow) ==
    Deliver(Scan(items, <<table>>,
                 IF keyEnd # <<>> THEN packKey(table, keyEnd) ELSE <<table + 1>>, limit), onRow)

scanRange(items, table, keyStart, keyEnd, limit, onRow) ==
    LET startKey == packKey(table, keyStart)
        endKey == IF keyEnd # <<>> THEN packKey(table, keyEnd) ELSE <<table + 1>>
    IN Deliver(Scan(items, startKey, endKey, limit), onRow)

scanInfiniteRange(items, table, keyStart, limit, onRow) ==
    scanRange(items, table, keyStart, <<>>, limit, onRow)

scanPrefix(items, table, prefixKey, limit, onRow) ==
    Deliver(Prefix(items, packKey(table, prefixKey), limit), onRow)

\* A faulty fetchKeys that takes an empty value for a missing key.
fetchKeysSkipEmpty(items, table, keys, onTabletRow) ==
    Deliver(SelectSeq(BatchGet(items, [n \in 1..Len(keys) |-> packKey(table, keys[n])]),
                      LAMBDA i : i.value # Nil /\ i.value # <<>>),
            onTabletRow)

\* fetchKeys skips the items whose value is nil (the keys that are missing).
fetchKeys(items, table, keys, onTabletRow) ==
    Deliver(SelectSeq(BatchGet(items, [n \in 1..Len(keys) |-> packKey(table, keys[n])]),
                      LAMBDA i : i.value # Nil),
            onTabletRow)

\* fetchKey: the value, or ErrNotFound.
fetchKey(items, table, key) ==
    LET out == Get(items, packKey(table, key))
    IN IF out = Nil THEN [value |-> Nil, err |-> "ErrNotFound"]
       ELSE [value |-> out, err |-> "nil"]

\* FetchSingletEntry: the first row of [keyStart, keyEnd[, or an empty key.
FetchSingletEntry(items, keyStart, keyEnd) ==
    LET r == scanRange(items, TblPrefixRows, keyStart, keyEnd, 1, AlwaysBreak)
    IN IF r.err # "nil" /\ r.err # BreakScan THEN [key |-> <<>>, value |-> Nil, err |-> "error"]
       ELSE IF Len(r.rows) = 0 THEN [key |-> <<>>, value |-> Nil, err |-> "nil"]
       ELSE [key |-> r.rows[1].key, value |-> r.rows[1].value, err |-> "nil"]

\* FetchIndex: the first INDEX row at or after keyStart, kept when the key the
\* callback is handed starts with prefixKey.
FetchIndex(items, tableKey, prefixKey, keyStart) ==
    LET r == scanInfiniteRange(items, TblPrefixIndex, keyStart, 1, AlwaysBreak)
        hit == Len(r.rows) > 0 /\ HasPrefix(r.rows[1].key, prefixKey)
        rawIndex == IF hit THEN r.rows[1].value ELSE Nil
    IN IF r.err # "nil" /\ r.err # BreakScan
       THEN [rowKey |-> <<>>, rawIndex |-> Nil, err |-> "error"]
       ELSE IF rawIndex = Nil THEN [rowKey |-> <<>>, rawIndex |-> Nil, err |-> "ErrNotFound"]
       ELSE [rowKey |-> r.rows[1].key, rawIndex |-> rawIndex, err |-> "nil"]

HasTabletRow(items, tabletKey) ==
    LET r == scanPrefix(items, TblPrefixRows, tabletKey, 1, AlwaysBreak)
    IN IF r.err # "nil" /\ r.err # BreakScan THEN [exists |-> FALSE, err |-> "error"]
       ELSE [exists |-> Len(r.rows) > 0, err |-> "nil"]

FetchTabletRow(items, key) == fetchKey(items, TblPrefixRows, key)

FetchTabletRows(items, keys, onTabletRow) == fetchKeys(items, TblPrefixRows, keys, onTabletRow)

\* ScanTabletRows hands the callback's BreakScan on to scanRange, wraps its
\* other errors, and returns nil when scanRange returned nil or BreakScan.
ScanTabletRows(items, keyStart, keyEnd, onTabletRow) ==
    LET r == scanRange(items, TblPrefixRows, keyStart, keyEnd, Unlimited, onTabletRow)
    IN [rows |-> r.rows, err |-> IF r.err # "nil" /\ r.err # BreakScan THEN "error" ELSE "nil"]

\* KVStore.FetchLastWrittenBlock: the block reference stored under key.
StoreFetchLastWrittenBlock(items, key) == fetchKey(items, TblPrefixLast, key)

ScanLastShardsWrittenBlock(items, keyPrefix, onBlockRef) ==
    LET r == scanPrefix(items, TblPrefixLast, keyPrefix, Unlimited, onBlockRef)
    IN [rows |-> r.rows, err |-> IF r.err # "nil" /\ r.err # BreakScan THEN "error" ELSE "nil"]

\* ------------------------------------------------------------------------
\* The mutation batch: count and tableMutations, one map per table
\* ------------------------------------------------------------------------

Tables == {TblPrefixRows, TblPrefixIndex, TblPrefixLast}

\* A faulty table order: INDEX before ROWS.
tableNamesIndexFirst == <<TblPrefixIndex, TblPrefixRows, TblPrefixLast>>

\* A faulty table order: LAST first.
tableNamesLastFirst == <<TblPrefixLast, TblPrefixRows, TblPrefixIndex>>

\* The order in which Flush walks the tables: LAST is the last one.
tableNames == <<TblPrefixRows, TblPrefixIndex, TblPrefixLast>>

\* batch.Reset, and the batch newBatch returns.
Reset == [count |-> 0, tableMutations |-> [t \in Tables |-> {}]]

\* A faulty setTable that counts the keys of the table, not the calls.
setTableCountKeys(b, table, key, value) ==
    [count |-> IF HasKey(b.tableMutations[table], key) THEN b.count ELSE b.count + 1,
     tableMutations |-> [b.tableMutations EXCEPT ![table] = Put(@, key, value)]]

\* A faulty setTable that keeps the value a key already has in the table.
setTableKeepFirst(b, table, key, value) ==
    [count |-> b.count + 1,
     tableMutations |-> [b.tableMutations EXCEPT
                            ![table] = IF HasKey(@, key) THEN @ ELSE Put(@, key, value)]]

setTable(b, table, key, value) ==
    [count |-> b.count + 1,
     tableMutations |-> [b.tableMutations EXCEPT ![table] = Put(@, key, value)]]

SetRow(b, key, value) == setTable(b, TblPrefixRows, key, value)

SetLast(b, key, value) == setTable(b, TblPrefixLast, key, value)

SetIndex(b, key, tableSnapshot) == setTable(b, TblPrefixIndex, key, tableSnapshot)

\* A faulty PutTable that leaves out the mutations whose value is empty.
PutTableSkipEmpty(items, table, muts) ==
    LET kept == {m \in muts : m.value # <<>>}
    IN {i \in items : ~HasKey(kept, SubSeq(i.key, 2, Len(i.key))) \/ i.key[1] # table}
           \cup {Item(packKey(table, m.key), m.value) : m \in kept}

\* A faulty PutTable whose puts append the value to the one the key has.
PutTableAppend(items, table, muts) ==
    {i \in items : ~HasKey(muts, SubSeq(i.key, 2, Len(i.key))) \/ i.key[1] # table}
        \cup {Item(packKey(table, m.key),
                   IF HasKey(items, packKey(table, m.key))
                   THEN Get(items, packKey(table, m.key)) \o m.value
                   ELSE m.value) : m \in muts}

\* The backend after one table's mutations are all put.
PutTable(items, table, muts) ==
    {i \in items : ~HasKey(muts, SubSeq(i.key, 2, Len(i.key))) \/ i.key[1] # table}
        \cup {Item(packKey(table, m.key), m.value) : m \in muts}

\* The backend after a Flush that met no error: the tables are put in the
\* order of tableNames, then the puts are flushed.
RECURSIVE FlushFrom(_, _, _)
FlushFrom(items, b, n) ==
    IF n > Len(tableNames) THEN items
    ELSE FlushFrom(PutTable(items, tableNames[n], b.tableMutations[tableNames[n]]), b, n + 1)

FlushedStore(items, b) == FlushFrom(items, b, 1)

\* A faulty FlushIfFull that flushes at the threshold already.
FlushIfFullAtThreshold(items, b) ==
    IF b.count < maxMutationCount
    THEN [flushes |-> FALSE, items |-> items, batch |-> b, err |-> "nil"]
    ELSE [flushes |-> TRUE, items |-> FlushedStore(items, b), batch |-> Reset, err |-> "nil"]

\* FlushIfFull with a backend that does not fail: nothing is done at a count
\* <= maxMutationCount, the batch is flushed and reset above it.
FlushIfFull(items, b) ==
    IF b.count <= maxMutationCount
    THEN [flushes |-> FALSE, items |-> items, batch |-> b, err |-> "nil"]
    ELSE [flushes |-> TRUE, items |-> FlushedStore(items, b), batch |-> Reset, err |-> "nil"]

\* ------------------------------------------------------------------------
\* FluxDB: keys, entries and rows
\*
\* A singlet entry is [singlet, height, value] and a tablet row is [tablet,
\* rowKey, height, value]; an empty value is a deletion.  A WriteRequest is
\* [Height, SingletEntries, TabletRows]; its block reference is its height.
\* ------------------------------------------------------------------------

\* The order-inverting form of a height.
RevHeight(h) == MaxHeightByte - h

\* ROWS key of a singlet entry: the singlet key, then the inverted height.
KeyForSingletEntry(singlet, h) == singlet \o <<RevHeight(h)>>

\* ROWS key of a tablet row: the tablet key, the height, the row key.
KeyForTabletRow(tablet, h, rowKey) == tablet \o <<h, rowKey>>

\* The first ROWS key of a tablet at a height.
KeyForTabletAt(tablet, h) == tablet \o <<h>>

\* INDEX key of a tablet's snapshot: the tablet key, then the inverted height.
KeyForIndex(tablet, h) == tablet \o <<RevHeight(h)>>

\* The scope of an unsharded store; a shard's scope is its index.
Unsharded == 0 - 1

\* LAST key of a scope.
LastBlockKey(scope) == IF scope = Unsharded THEN <<7>> ELSE <<8, scope>>

IsDeletion(value) == value = <<>>

\* The entry of a (key, value) pair a store callback was handed: the height is
\* the fixed-width tail of the key.
NewSingletEntry(singlet, key, value) ==
    [singlet |-> singlet, height |-> MaxHeightByte - key[Len(key)], value |-> value]

\* The row of a (key, value) pair: the row key is the tail of the key, the
\* height the byte before it.
NewTabletRow(tablet, key, value) ==
    [tablet |-> tablet, rowKey |-> key[Len(key)], height |-> key[Len(key) - 1], value |-> value]

\* ------------------------------------------------------------------------
\* FluxDB: the write path
\* ------------------------------------------------------------------------

\* The loop `for _, entry := range entries { batch.SetRow(...) }`.
RECURSIVE setEntries(_, _)
setEntries(b, entries) ==
    IF entries = <<>> THEN b
    ELSE setEntries(SetRow(b, KeyForSingletEntry(entries[1].singlet, entries[1].height),
                           entries[1].value), Tail(entries))

\* The loop `for _, row := range rows { batch.SetRow(...) }` as its net
\* effect: one mutation counted per row, and of the rows that share a key the
\* last one is the one the map keeps.
setRows(b, rows) ==
    LET keyOf(n) == KeyForTabletRow(rows[n].tablet, rows[n].height, rows[n].rowKey)
        kept == {n \in 1..Len(rows) : \A m \in (n + 1)..Len(rows) : keyOf(m) # keyOf(n)}
        muts == {Item(keyOf(n), rows[n].value) : n \in kept}
    IN [count |-> b.count + Len(rows),
        tableMutations |->
            [b.tableMutations EXCEPT
                ![TblPrefixRows] = {i \in @ : ~HasKey(muts, i.key)} \cup muts]]

\* writeBlock: the request's entries and rows, then the scope's watermark.
writeBlock(b, req, scope) ==
    SetLast(setRows(setEntries(b, req.SingletEntries), req.TabletRows),
            LastBlockKey(scope), <<req.Height>>)

RECURSIVE writeBlocks(_, _, _)
writeBlocks(b, requests, scope) ==
    IF requests = <<>> THEN b
    ELSE writeBlocks(writeBlock(b, requests[1], scope), Tail(requests), scope)

\* WriteBatch: the requests are written to one batch, which is flushed.
WriteBatch(items, requests, scope) ==
    FlushedStore(items, writeBlocks(Reset, requests, scope))

\* The backend after the first n tables of the batch are put.
RECURSIVE PutTables(_, _, _)
PutTables(items, b, n) ==
    IF n = 0 THEN items
    ELSE PutTable(PutTables(items, b, n - 1), tableNames[n], b.tableMutations[tableNames[n]])

\* What the backend may do to a WriteBatch: nothing, or fail it when the
\* batch's Flush has put the first n tables.
NoFailure == [fails |-> FALSE, tables |-> 0, cancelled |-> FALSE]

WriteFailure(n) == [fails |-> TRUE, tables |-> n, cancelled |-> FALSE]

\* The WriteBatch's context is cancelled when its Flush has put the first n
\* tables: the next call on the backend returns the context's error.
Cancelled(n) == [fails |-> TRUE, tables |-> n, cancelled |-> TRUE]

\* The backend a WriteBatch that fails leaves: the puts made before the
\* error may have reached it.
FailedWriteBatch(items, requests, scope, failure) ==
    PutTables(items, writeBlocks(Reset, requests, scope), failure.tables)

\* FluxDB.FetchLastWrittenBlock: the height of the scope's watermark, 0 when
\* the store holds none.
FetchLastWrittenBlock(items, scope) ==
    LET r == StoreFetchLastWrittenBlock(items, LastBlockKey(scope))
    IN IF r.err = "ErrNotFound" THEN 0 ELSE r.value[1]

\* ------------------------------------------------------------------------
\* FluxDB: the read path
\* ------------------------------------------------------------------------

RECURSIVE Flatten(_)
Flatten(seqs) == IF seqs = <<>> THEN <<>> ELSE seqs[1] \o Flatten(Tail(seqs))

\* The sequence sorted by height, the order among equal heights kept.
RECURSIVE SortByHeight(_)
SortByHeight(s) ==
    IF s = <<>> THEN <<>>
    ELSE LET n == CHOOSE n \in 1..Len(s) :
                    \A m \in 1..Len(s) : s[n].height < s[m].height
                                         \/ (s[n].height = s[m].height /\ n <= m)
         IN <<s[n]>> \o SortByHeight(SubSeq(s, 1, n - 1) \o SubSeq(s, n + 1, Len(s)))

\* The speculative entries of a singlet at a height <= height, oldest first.
SpeculativeEntries(singlet, height, speculativeWrites) ==
    SortByHeight(SelectSeq(
        Flatten([n \in 1..Len(speculativeWrites) |-> speculativeWrites[n].SingletEntries]),
        LAMBDA e : e.singlet = singlet /\ e.height <= height))

\* A faulty selection that keeps the speculative rows above height too.
SpeculativeRowsAnyHeight(tablet, height, speculativeWrites) ==
    SortByHeight(SelectSeq(
        Flatten([n \in 1..Len(speculativeWrites) |-> speculativeWrites[n].TabletRows]),
        LAMBDA r : r.tablet = tablet))

\* The speculative rows of a tablet at a height <= height, oldest first.
SpeculativeRows(tablet, height, speculativeWrites) ==
    SortByHeight(SelectSeq(
        Flatten([n \in 1..Len(speculativeWrites) |-> speculativeWrites[n].TabletRows]),
        LAMBDA r : r.tablet = tablet /\ r.height <= height))

\* ReadSingletEntryAt: <<entry>>, or <<>> when the singlet is absent at height.
ReadSingletEntryAt(items, singlet, height, speculativeWrites) ==
    LET f == FetchSingletEntry(items, KeyForSingletEntry(singlet, height),
                               singlet \o <<MaxHeightByte + 1>>)
        persisted == IF Len(f.key) > 0 THEN <<NewSingletEntry(singlet, f.key, f.value)>>
                     ELSE <<>>
        spec == SpeculativeEntries(singlet, height, speculativeWrites)
        entry == IF spec # <<>> THEN <<spec[Len(spec)]>> ELSE persisted
    IN IF entry # <<>> /\ IsDeletion(entry[1].value) THEN <<>> ELSE entry

\* The rows of an INDEX snapshot <<n, rowKey1, height1, ..., rowKeyn, heightn>>
\* as ROWS keys.
IndexRowKeys(tablet, rawIndex) ==
    [n \in 1..rawIndex[1] |-> KeyForTabletRow(tablet, rawIndex[2 * n + 1], rawIndex[2 * n])]

ApplyRow(rows, row) ==
    {r \in rows : r.rowKey # row.rowKey} \cup (IF IsDeletion(row.value) THEN {} ELSE {row})

RECURSIVE ApplyRows(_, _)
ApplyRows(rows, muts) ==
    IF muts = <<>> THEN rows ELSE ApplyRows(ApplyRow(rows, muts[1]), Tail(muts))

RECURSIVE SortByRowKey(_)
SortByRowKey(rows) ==
    IF rows = {} THEN <<>>
    ELSE LET m == CHOOSE x \in rows : \A y \in rows : x.rowKey <= y.rowKey
         IN <<m>> \o SortByRowKey(rows \ {m})

\* ReadTabletAt: the tablet's rows at height, by row key.  The base is the
\* latest INDEX snapshot at or below height when FetchIndex finds one; the
\* ROWS mutations above it, up to height, are applied in key order, then the
\* speculative ones.
ReadTabletAt(items, height, tablet, speculativeWrites) ==
    LET idx == FetchIndex(items, tablet, tablet, KeyForIndex(tablet, height))
        found == idx.err = "nil"
        snapshotHeight == IF found THEN MaxHeightByte - idx.rowKey[Len(idx.rowKey)] ELSE 0
        fetched == IF found
                   THEN FetchTabletRows(items, IndexRowKeys(tablet, idx.rawIndex), AlwaysNil).rows
                   ELSE <<>>
        startHeight == IF found THEN snapshotHeight + 1 ELSE 0
        scanned == ScanTabletRows(items, KeyForTabletAt(tablet, startHeight),
                                  KeyForTabletAt(tablet, height + 1), AlwaysNil).rows
        asRows(kvs) == [n \in 1..Len(kvs) |-> NewTabletRow(tablet, kvs[n].key, kvs[n].value)]
    IN SortByRowKey(ApplyRows(ApplyRows(ApplyRows({}, asRows(fetched)), asRows(scanned)),
                              SpeculativeRows(tablet, height, speculativeWrites)))

\* The INDEX snapshot of a tablet's rows: <<n, rowKey1, height1, ...>>.
RECURSIVE EncodeRows(_)
EncodeRows(rows) ==
    IF rows = <<>> THEN <<>> ELSE <<rows[1].rowKey, rows[1].height>> \o EncodeRows(Tail(rows))

EncodeIndex(rows) == <<Len(rows)>> \o EncodeRows(rows)

\* Indexing a tablet at a height: its rows at that height are written as one
\* INDEX mutation and flushed.
IndexTablet(items, tablet, height) ==
    FlushedStore(items, SetIndex(Reset, KeyForIndex(tablet, height),
                                 EncodeIndex(ReadTabletAt(items, height, tablet, <<>>))))

\* ------------------------------------------------------------------------
\* Shard objects and the Shard Injector's callback
\*
\* An object is [name, content].  A name is a string over the digits 0..9,
\* the dash and other characters; a content is the WriteRequests the decoder
\* yields before it meets the end of the object or, in a corrupt object, an
\* error.
\* ------------------------------------------------------------------------

\* The separator of a file name, and a character that is no digit.
Dash == 10
Letter == 11

\* strings.Split(s, sep) for a separator of one character.
RECURSIVE Split(_, _)
Split(s, sep) ==
    IF \A i \in 1..Len(s) : s[i] # sep THEN <<s>>
    ELSE LET i == CHOOSE i \in 1..Len(s) : s[i] = sep /\ \A j \in 1..(i - 1) : s[j] # sep
         IN <<SubSeq(s, 1, i - 1)>> \o Split(SubSeq(s, i + 1, Len(s)), sep)

RECURSIVE StripZeros(_)
StripZeros(s) == IF s # <<>> /\ s[1] = 0 THEN StripZeros(Tail(s)) ELSE s

RECURSIVE DecimalValue(_)
DecimalValue(s) ==
    IF s = <<>> THEN 0 ELSE DecimalValue(SubSeq(s, 1, Len(s) - 1)) * 10 + s[Len(s)]

\* The digits of the greatest value of 32 bits, 4294967295.
MaxUint32Digits == <<4, 2, 9, 4, 9, 6, 7, 2, 9, 5>>

\* The error of strconv.ParseUint(s, 10, 32): the empty string, a character
\* that is no digit (a sign included), a value out of the range of 32 bits.
ParseUintError(s) ==
    \/ s = <<>>
    \/ \E i \in 1..Len(s) : s[i] \notin 0..9
    \/ LET digits == StripZeros(s)
       IN \/ Len(digits) > Len(MaxUint32Digits)
          \/ Len(digits) = Len(MaxUint32Digits) /\ LexLess(MaxUint32Digits, digits)

ParseUint(s) ==
    IF ParseUintError(s) THEN [val |-> 0, err |-> TRUE]
    ELSE [val |-> DecimalValue(StripZeros(s)), err |-> FALSE]

\* A faulty parser that looks at the first two parts and ignores the others.
parseFileNameErrorFirstParts(filename) ==
    LET vals == Split(filename, Dash)
    IN \/ Len(vals) < 2
       \/ ParseUintError(vals[1])
       \/ ParseUintError(vals[2])

\* The error of parseFileName.
parseFileNameError(filename) ==
    LET vals == Split(filename, Dash)
    IN \/ Len(vals) # 2
       \/ ParseUintError(vals[1])
       \/ ParseUintError(vals[2])

parseFileName(filename) ==
    LET vals == Split(filename, Dash)
    IN IF parseFileNameError(filename) THEN [first |-> 0, last |-> 0, err |-> TRUE]
       ELSE [first |-> ParseUint(vals[1]).val, last |-> ParseUint(vals[2]).val, err |-> FALSE]

\* A faulty reader that returns what it decoded when the decoder fails.
readWriteRequestsIgnoreError(content, startAfter) ==
    [requests |-> SelectSeq(content.requests, LAMBDA req : req.Height > startAfter),
     err |-> FALSE]

\* A faulty reader that keeps the requests at the tracker's height.
readWriteRequestsKeepBoundary(content, startAfter) ==
    IF content.corrupt THEN [requests |-> <<>>, err |-> TRUE]
    ELSE [requests |-> SelectSeq(content.requests, LAMBDA req : req.Height >= startAfter),
          err |-> FALSE]

\* A faulty reader that also discards the request right after the tracker.
readWriteRequestsDropNext(content, startAfter) ==
    IF content.corrupt THEN [requests |-> <<>>, err |-> TRUE]
    ELSE [requests |-> SelectSeq(content.requests, LAMBDA req : req.Height > startAfter + 1),
          err |-> FALSE]

\* readWriteRequestsForBatch: the requests decoded up to the end of the
\* object less those at a height <= startAfter; nil and an error when the
\* decoder fails.
readWriteRequestsForBatch(content, startAfter) ==
    IF content.corrupt THEN [requests |-> <<>>, err |-> TRUE]
    ELSE [requests |-> SelectSeq(content.requests, LAMBDA req : req.Height > startAfter),
          err |-> FALSE]

\* A faulty gap test that lets a hole of one block through.
IsGapLoose(fileFirst, startAfter) == fileFirst > startAfter + 2

\* `fileFirst > startAfterNum+1`: the file leaves a hole after the tracker.
IsGap(fileFirst, startAfter) == fileFirst > startAfter + 1

\* A faulty skip test that processes the file that ends at the tracker.
IsSkippedStrict(fileLast, startAfter) == fileLast < startAfter

\* `fileLast <= startAfterNum`: the file is applied already.
IsSkipped(fileLast, startAfter) == fileLast <= startAfter

\* The order in which Walk hands the names of a directory to the callback.
RECURSIVE SortNames(_)
SortNames(names) ==
    IF names = {} THEN <<>>
    ELSE LET first == CHOOSE n \in names : \A m \in names \ {n} : LexLess(n, m)
         IN <<first>> \o SortNames(names \ {first})

\* OpenObject: the content of the object of a name.
OpenObject(dir, filename) == (CHOOSE o \in dir : o.name = filename).content

\* A faulty advance of the tracker, to the first block of the file.
TrackerAfterFirst(fileFirst, fileLast) == fileFirst

\* `startAfterNum = fileLast`: the tracker after a file is written.
TrackerAfter(fileFirst, fileLast) == fileLast

\* Run's callback on one file name, with the tracker at startAfter and a
\* backend that does failure to a WriteBatch: what it returns ("nil" or the
\* kind of its error), the store and the tracker it leaves, whether it opened
\* the object and whether it called WriteBatch, with which requests.
WalkFile(items, scope, dir, filename, startAfter, failure) ==
    LET parsed == parseFileName(filename)
        read == readWriteRequestsForBatch(OpenObject(dir, filename), startAfter)
        return(err, isOpened) ==
            [err |-> err, items |-> items, startAfter |-> startAfter,
             opened |-> isOpened, wrote |-> FALSE, requests |-> <<>>]
    IN IF parsed.err THEN return("parse", FALSE)
       ELSE IF IsGap(parsed.first, startAfter) THEN return("gap", FALSE)
       ELSE IF IsSkipped(parsed.last, startAfter) THEN return("nil", FALSE)
       ELSE IF read.err THEN return("read", TRUE)
       ELSE IF failure.fails
            THEN [err |-> "write",
                  items |-> FailedWriteBatch(items, read.requests, scope, failure),
                  startAfter |-> startAfter, opened |-> TRUE, wrote |-> TRUE,
                  requests |-> read.requests]
       ELSE [err |-> "nil", items |-> WriteBatch(items, read.requests, scope),
             startAfter |-> TrackerAfter(parsed.first, parsed.last),
             opened |-> TRUE, wrote |-> TRUE,
             requests |-> read.requests]

\* ------------------------------------------------------------------------
\* The Sharder
\* ------------------------------------------------------------------------

\* The width the block numbers of an object's name are padded to.
NameDigits == 2

RECURSIVE Pad(_, _)
Pad(n, width) == IF width = 0 THEN <<>> ELSE Pad(n \div 10, width - 1) \o <<n % 10>>

\* The name of the object of an inclusive range of blocks.
FileName(first, last) == Pad(first, NameDigits) \o <<Dash>> \o Pad(last, NameDigits)

\* The shard that owns an entity: its identifier modulo the number of shards.
goesToShard(key, shardCount) == key[Len(key)] % shardCount

\* The part of a WriteRequest that goes to one shard.
ShardedRequest(req, shard, shardCount) ==
    [Height |-> req.Height,
     SingletEntries |->
         SelectSeq(req.SingletEntries, LAMBDA e : goesToShard(e.singlet, shardCount) = shard),
     TabletRows |->
         SelectSeq(req.TabletRows, LAMBDA r : goesToShard(r.tablet, shardCount) = shard)]

ErrCleanSourceStop == "ErrCleanSourceStop"

NewSharder(shardCount, startBlock, stopBlock) ==
    [shardCount |-> shardCount, startBlock |-> startBlock, stopBlock |-> stopBlock,
     buffers |-> [shard \in 0..(shardCount - 1) |-> <<>>], num |-> 0, err |-> "none"]

\* A faulty stop test that stops at the stop block itself.
AtStopBlock(num, stopBlock) == num >= stopBlock

\* The block is past the stop block: TestSharding's Sharder of blocks 1 to 3
\* takes blocks 1, 2 and 3 without an error and stops at block 4.
PastStopBlock(num, stopBlock) == num > stopBlock

\* writeShards: every shard's buffer is written to the object of the
\* Sharder's range in the shard's directory.
writeShards(objs, sh) ==
    [shard \in DOMAIN objs |->
        IF shard \in DOMAIN sh.buffers
        THEN {o \in objs[shard] : o.name # FileName(sh.startBlock, sh.stopBlock)}
                 \cup {[name |-> FileName(sh.startBlock, sh.stopBlock),
                        content |-> [requests |-> sh.buffers[shard], corrupt |-> FALSE]]}
        ELSE objs[shard]]

\* ProcessBlock: past the stop block the shards are written and the clean
\* stop is returned; any other block is split between the shards' buffers.
ProcessBlock(sh, objs, req) ==
    IF PastStopBlock(req.Height, sh.stopBlock)
    THEN [sharder |-> [sh EXCEPT !.num = req.Height, !.err = ErrCleanSourceStop],
          objects |-> writeShards(objs, sh)]
    ELSE [sharder |->
              [sh EXCEPT !.num = req.Height, !.err = "nil",
                         !.buffers = [shard \in DOMAIN @ |->
                             Append(@[shard], ShardedRequest(req, shard, sh.shardCount))]],
          objects |-> objs]

\* ------------------------------------------------------------------------
\* State
\* ------------------------------------------------------------------------

VARIABLES
    db,            \* the backend's durable items
    ingested,      \* the WriteRequests written so far, in order
    staged,        \* the backend's puts that are not durable yet, oldest first
    batch,         \* the mutation batch: [count, tableMutations]
    pc,            \* "idle", "flush" while a Flush is running, "failed" after its error
    flushed,       \* the <<table, key>> mutations the running Flush has put
    flushBy,       \* what started the last Flush: "none", "Flush" or "FlushIfFull"
    chain,         \* the WriteRequest of every block, by height
    nextHeight,    \* the height of the next block the writer writes
    objects,       \* the shards store: the objects [name, content] of every shard's directory
    shardIndex,    \* the shard the injector's FluxDB is set to
    runPc,         \* Run: "idle", "walking", "returned" or "failed"
    remaining,     \* the names Walk has still to hand to Run's callback, in order
    startAfterNum, \* Run's watermark tracker
    calls,         \* the WriteBatch calls of the Run: [name, startAfter, requests]
    opened,        \* the names of the objects the Run has opened
    sharder,       \* the Sharder, and what its last ProcessBlock returned
    sets           \* the calls made on the batch so far: Set calls and Flushes, in order

storeVars == <<db, ingested>>
batchVars == <<staged, batch, pc, flushed, flushBy, chain, nextHeight, sets>>
runVars == <<shardIndex, runPc, remaining, startAfterNum, calls, opened>>
shardVars == <<objects, sharder>>
vars == <<db, ingested, staged, batch, pc, flushed, flushBy, chain, nextHeight,
          objects, shardIndex, runPc, remaining, startAfterNum, calls, opened, sharder,
          sets>>

\* The batch variables of a specification that runs no step-wise Flush.
BatchUnused ==
    /\ staged = <<>>
    /\ batch = Reset
    /\ pc = "idle"
    /\ flushed = {}
    /\ flushBy = "none"
    /\ chain = <<>>
    /\ nextHeight = 1
    /\ sets = <<>>

\* The most shards of a Sharder.
MaxShards == 2

Shards == 0..(MaxShards - 1)

\* The variables of a specification without an injector, without a Sharder.
RunUnused ==
    /\ shardIndex = 0
    /\ runPc = "idle"
    /\ remaining = <<>>
    /\ startAfterNum = 0
    /\ calls = <<>>
    /\ opened = {}

ShardUnused ==
    /\ objects = [shard \in Shards |-> {}]
    /\ sharder = NewSharder(1, 1, 1)

\* ------------------------------------------------------------------------
\* The entities and requests the model draws from
\* ------------------------------------------------------------------------

Heights == 1..MaxHeight

Singlet1 == <<SingletCollection, 1>>
Singlet2 == <<SingletCollection, 2>>
Tablet1 == <<TabletCollection, 1>>
Tablet2 == <<TabletCollection, 2>>

Singlets == {Singlet1, Singlet2}
Tablets == {Tablet1, Tablet2}
RowKeys == {1, 2}

\* The values of a write: a payload of one byte, or the empty value of a
\* deletion.
Payloads == {<<1>>, <<2>>}

SingletEntry(singlet, h, value) == [singlet |-> singlet, height |-> h, value |-> value]
TabletRow(tablet, rowKey, h, value) ==
    [tablet |-> tablet, rowKey |-> rowKey, height |-> h, value |-> value]

\* What a block does to Singlet1: nothing, a write of a payload, a deletion.
EntryChoices(h) ==
    {<<>>} \cup {<<SingletEntry(Singlet1, h, v)>> : v \in Payloads \cup {<<>>}}

\* What a block does to Tablet1: to each row nothing, a write or a deletion.
RowChoices(h) ==
    {SortByRowKey({TabletRow(Tablet1, rk, h, rs[rk]) : rk \in DOMAIN rs}) :
        rs \in UNION {[S -> {<<1>>, <<>>}] : S \in SUBSET RowKeys}}

\* What every block does beside: it writes Singlet2, and it writes row 1 of
\* Tablet2 at the odd heights and deletes it at the even ones.  Their keys
\* follow those of Singlet1 and of Tablet1 in the ROWS table.
OtherEntries(h) == <<SingletEntry(Singlet2, h, <<2>>)>>
OtherRows(h) == <<TabletRow(Tablet2, 1, h, IF h % 2 = 0 THEN <<>> ELSE <<2>>)>>

\* The WriteRequests of a block at height h: the block changes Singlet1 or
\* rows of Tablet1.
RequestsAt(h) ==
    {[Height |-> h, SingletEntries |-> es \o OtherEntries(h), TabletRows |-> OtherRows(h)] :
        es \in EntryChoices(h)}
    \cup
    {[Height |-> h, SingletEntries |-> OtherEntries(h), TabletRows |-> rs \o OtherRows(h)] :
        rs \in RowChoices(h)}

LastHeight(requests) == IF requests = <<>> THEN 0 ELSE requests[Len(requests)].Height

\* ------------------------------------------------------------------------
\* The store under direct ingestion: one WriteBatch per block, the tablets
\* indexed every IndexPeriod heights
\* ------------------------------------------------------------------------

IndexPeriod == 2

\* The store after the blocks' periodic indexing at height h.
Indexed(items, h) ==
    IF h % IndexPeriod = 0
    THEN IndexTablet(IndexTablet(items, Tablet1, h), Tablet2, h)
    ELSE items

\* Direct ingestion of one block.
Ingest(items, req, scope) == Indexed(WriteBatch(items, <<req>>, scope), req.Height)

StoreInit ==
    /\ db = {}
    /\ ingested = <<>>
    /\ BatchUnused
    /\ RunUnused
    /\ ShardUnused

\* A block above the last one is written by one WriteBatch.
StoreWrite ==
    \E h \in Heights : \E req \in RequestsAt(h) :
        /\ h > LastHeight(ingested)
        /\ db' = Ingest(db, req, Unsharded)
        /\ ingested' = Append(ingested, req)
        /\ UNCHANGED <<batchVars, runVars, shardVars>>

StoreNext == StoreWrite

SpecStore == StoreInit /\ [][StoreNext]_vars

\* ------------------------------------------------------------------------
\* The mutation batch against the backend, put by put
\*
\* The writer writes the blocks of a chain to one batch in height order, each
\* by writeBlock, and calls FlushIfFull or Flush between blocks.  A Flush puts
\* its mutations one at a time; the backend makes the puts durable in the
\* order they were put, at the latest at FlushPuts.  A crash loses the batch
\* and the puts that are not durable; the writer then resumes after the
\* durable watermark.
\* ------------------------------------------------------------------------

\* The number of blocks of the chain.
BatchBlocks == 2

\* How many times a big block writes its row.
BigRepeat == 100

\* How many puts the backend holds before it has made the oldest durable.
MaxStaged == 7

\* The one-element sequence <<x>> n times over.
Repeated(x, n) == [i \in 1..n |-> x]

\* The block at height h: row 1 of Tablet1, written once, BigRepeat - 1 times
\* or BigRepeat times over.
BlockOf(h, repeat) ==
    [Height |-> h,
     SingletEntries |-> <<>>,
     TabletRows |-> Repeated(TabletRow(Tablet1, 1, h, <<1>>), repeat)]

\* The snapshot of Tablet1 the writer sets with an indexed block.
BlockIndex(h) == EncodeIndex(<<TabletRow(Tablet1, 1, h, <<1>>)>>)

\* The ROWS items of a block, as the backend holds them once durable.
BlockItems(req) ==
    {Item(packKey(TblPrefixRows, KeyForSingletEntry(e.singlet, e.height)), e.value) :
        e \in {req.SingletEntries[n] : n \in 1..Len(req.SingletEntries)}}
    \cup
    {Item(packKey(TblPrefixRows, KeyForTabletRow(r.tablet, r.height, r.rowKey)), r.value) :
        r \in {req.TabletRows[n] : n \in 1..Len(req.TabletRows)}}

\* The mutations a running Flush has still to put, per table.
Unput(table) == {m \in batch.tableMutations[table] : <<table, m.key>> \notin flushed}

\* Where the running Flush is in tableNames: the first position whose table
\* has a mutation left, 0 when none is left.
FlushAt ==
    LET left == {n \in 1..Len(tableNames) : Unput(tableNames[n]) # {}}
    IN IF left = {} THEN 0 ELSE CHOOSE n \in left : \A m \in left : n <= m

RECURSIVE PutAll(_, _)
PutAll(items, puts) ==
    IF puts = <<>> THEN items ELSE PutAll(Put(items, puts[1].key, puts[1].value), Tail(puts))

BatchInit ==
    /\ db = {}
    /\ ingested = <<>>
    /\ staged = <<>>
    /\ batch = Reset
    /\ pc = "idle"
    /\ flushed = {}
    /\ flushBy = "none"
    /\ chain \in [1..BatchBlocks -> [repeat : {1, BigRepeat - 1, BigRepeat}, indexed : BOOLEAN]]
    /\ nextHeight = 1
    /\ sets = <<>>
    /\ RunUnused
    /\ ShardUnused

\* The writer writes the next block to the batch, and with an indexed block
\* the snapshot of its tablet.
BatchWriteBlock ==
    /\ pc = "idle"
    /\ nextHeight <= BatchBlocks
    /\ LET kind == chain[nextHeight]
           b == writeBlock(batch, BlockOf(nextHeight, kind.repeat), Unsharded)
       IN batch' = IF kind.indexed
                   THEN SetIndex(b, KeyForIndex(Tablet1, nextHeight), BlockIndex(nextHeight))
                   ELSE b
    /\ nextHeight' = nextHeight + 1
    /\ UNCHANGED <<runVars, shardVars, sets, db, ingested, staged, pc, flushed, flushBy, chain>>

\* FlushIfFull: nothing at a count <= maxMutationCount, a Flush above it.
BatchFlushIfFull ==
    /\ pc = "idle"
    /\ IF FlushIfFull(db, batch).flushes
       THEN pc' = "flush" /\ flushBy' = "FlushIfFull"
       ELSE UNCHANGED <<pc, flushBy>>
    /\ UNCHANGED <<runVars, shardVars, sets, db, ingested, staged, batch, flushed, chain, nextHeight>>

\* Flush is called.
BatchFlush ==
    /\ pc = "idle"
    /\ pc' = "flush"
    /\ flushBy' = "Flush"
    /\ UNCHANGED <<runVars, shardVars, sets, db, ingested, staged, batch, flushed, chain, nextHeight>>

\* Flush puts one mutation of the table it is at, in any order of its map.
FlushPut ==
    /\ pc = "flush"
    /\ FlushAt # 0
    /\ Len(staged) < MaxStaged
    /\ LET table == tableNames[FlushAt]
       IN \E m \in Unput(table) :
              /\ staged' = Append(staged, Item(packKey(table, m.key), m.value))
              /\ flushed' = flushed \cup {<<table, m.key>>}
    /\ UNCHANGED <<runVars, shardVars, sets, db, ingested, batch, pc, flushBy, chain, nextHeight>>

\* Every mutation is put: FlushPuts makes the puts durable, the batch is reset
\* and Flush returns.
FlushBarrier ==
    /\ pc = "flush"
    /\ FlushAt = 0
    /\ db' = PutAll(db, staged)
    /\ staged' = <<>>
    /\ batch' = Reset
    /\ flushed' = {}
    /\ pc' = "idle"
    /\ UNCHANGED <<runVars, shardVars, sets, ingested, flushBy, chain, nextHeight>>

\* A faulty failure of Flush that resets the batch as it returns the error.
FlushFailResets ==
    /\ pc = "flush"
    /\ pc' = "failed"
    /\ batch' = Reset
    /\ UNCHANGED <<runVars, shardVars, sets, db, ingested, staged, flushed, flushBy, chain, nextHeight>>

\* A Put or FlushPuts fails: Flush returns the error with the batch kept as
\* it is, and the writer hands the error up and writes no more.
FlushFail ==
    /\ pc = "flush"
    /\ pc' = "failed"
    /\ UNCHANGED <<runVars, shardVars, sets, db, ingested, staged, batch, flushed, flushBy, chain, nextHeight>>

\* The backend makes its oldest put durable.
BackendCommit ==
    /\ staged # <<>>
    /\ db' = Put(db, staged[1].key, staged[1].value)
    /\ staged' = Tail(staged)
    /\ UNCHANGED <<runVars, shardVars, sets, ingested, batch, pc, flushed, flushBy, chain, nextHeight>>

\* The process crashes: the batch and the puts that are not durable are lost.
Crash ==
    /\ pc # "crashed"
    /\ staged' = <<>>
    /\ batch' = Reset
    /\ pc' = "crashed"
    /\ flushed' = {}
    /\ UNCHANGED <<runVars, shardVars, sets, db, ingested, flushBy, chain, nextHeight>>

\* The process restarts: the writer resumes after the durable watermark with
\* a new batch.
Restart ==
    /\ pc = "crashed"
    /\ pc' = "idle"
    /\ nextHeight' = FetchLastWrittenBlock(db, Unsharded) + 1
    /\ UNCHANGED <<runVars, shardVars, sets, db, ingested, staged, batch, flushed, flushBy, chain>>

BatchNext ==
    \/ BatchWriteBlock
    \/ BatchFlushIfFull
    \/ BatchFlush
    \/ FlushPut
    \/ FlushBarrier
    \/ FlushFail
    \/ BackendCommit
    \/ Crash
    \/ Restart

SpecBatch == BatchInit /\ [][BatchNext]_vars

\* The writer calls Flush again after a Flush that failed: the new Flush
\* starts at the first table with the batch as the failed one left it.
BatchRetry ==
    /\ pc = "failed"
    /\ pc' = "flush"
    /\ flushed' = {}
    /\ UNCHANGED <<runVars, shardVars, sets, db, ingested, staged, batch, flushBy, chain, nextHeight>>

RetryNext == BatchNext \/ BatchRetry

\* The chains of blocks that write their row once.
RetryInit ==
    /\ BatchInit
    /\ \A h \in 1..BatchBlocks : chain[h].repeat = 1

\* The writer with a caller that retries the Flush that failed.
SpecRetry == RetryInit /\ [][RetryNext]_vars

\* ---------------------------------------------------------------------------
\* SpecSets: a batch that is written through SetRow, SetIndex and SetLast with
\* any keys and values and flushed with success at any moment. sets records
\* the calls.
\* ---------------------------------------------------------------------------

MaxSets == 4

SetKeys == {<<1>>, <<2>>}

\* An empty value and one that is not.
SetValues == {<<>>, <<1>>}

SetCall(op, table, key, value) == [op |-> op, table |-> table, key |-> key, value |-> value]

FlushCall == SetCall("Flush", TblPrefixLast, <<>>, <<>>)

SetsInit ==
    /\ db = {}
    /\ ingested = <<>>
    /\ staged = <<>>
    /\ batch = Reset
    /\ pc = "idle"
    /\ flushed = {}
    /\ flushBy = "none"
    /\ chain = <<>>
    /\ nextHeight = 1
    /\ sets = <<>>
    /\ RunUnused
    /\ ShardUnused

CallSetRow ==
    /\ Len(sets) < MaxSets
    /\ \E key \in SetKeys, value \in SetValues :
           /\ batch' = SetRow(batch, key, value)
           /\ sets' = Append(sets, SetCall("SetRow", TblPrefixRows, key, value))
    /\ UNCHANGED <<storeVars, runVars, shardVars, staged, pc, flushed, flushBy, chain, nextHeight>>

CallSetIndex ==
    /\ Len(sets) < MaxSets
    /\ \E value \in SetValues :
           /\ batch' = SetIndex(batch, <<1>>, value)
           /\ sets' = Append(sets, SetCall("SetIndex", TblPrefixIndex, <<1>>, value))
    /\ UNCHANGED <<storeVars, runVars, shardVars, staged, pc, flushed, flushBy, chain, nextHeight>>

CallSetLast ==
    /\ Len(sets) < MaxSets
    /\ \E value \in SetValues :
           /\ batch' = SetLast(batch, <<1>>, value)
           /\ sets' = Append(sets, SetCall("SetLast", TblPrefixLast, <<1>>, value))
    /\ UNCHANGED <<storeVars, runVars, shardVars, staged, pc, flushed, flushBy, chain, nextHeight>>

\* Flush with a backend that does not fail.
CallFlush ==
    /\ Len(sets) < MaxSets
    /\ db' = FlushedStore(db, batch)
    /\ batch' = Reset
    /\ sets' = Append(sets, FlushCall)
    /\ UNCHANGED <<ingested, runVars, shardVars, staged, pc, flushed, flushBy, chain, nextHeight>>

SetsNext == CallSetRow \/ CallSetIndex \/ CallSetLast \/ CallFlush

SpecSets == SetsInit /\ [][SetsNext]_vars

\* ------------------------------------------------------------------------
\* C1: in every reachable state, after any writes to the batch, automatic
\* flushes (FlushIfFull), forced flushes (Flush) and a crash at any point
\* inside a flush, the durable LAST watermark references no height whose
\* ROWS mutations are not durable.
\* ------------------------------------------------------------------------
C1_WatermarkAfterRows ==
    \A h \in 1..BatchBlocks :
        h <= FetchLastWrittenBlock(db, Unsharded) =>
            BlockItems(BlockOf(h, chain[h].repeat)) \subseteq db

\* A crash inside an automatic flush left the row of block 2 durable and the
\* watermark at block 1: the writer resumes at block 2.
C1_Witness ==
    /\ flushBy = "FlushIfFull"
    /\ pc = "idle" /\ batch = Reset /\ staged = <<>>
    /\ FetchLastWrittenBlock(db, Unsharded) = 1
    /\ nextHeight = 2
    /\ BlockItems(BlockOf(2, chain[2].repeat)) \subseteq db

\* ------------------------------------------------------------------------
\* The Shard Injector's Run over a shard's directory
\*
\* The directory holds up to MaxObjects objects: objects of ranges of blocks,
\* each whole or corrupt, and objects whose name does not parse.  The store
\* holds the blocks an earlier injection wrote.
\* ------------------------------------------------------------------------

\* The most objects of a directory.
MaxObjects == 3

\* The request an object holds for height h.
InjectRequest(h) ==
    [Height |-> h,
     SingletEntries |-> <<SingletEntry(Singlet1, h, <<1>>)>>,
     TabletRows |-> <<TabletRow(Tablet1, 1, h, <<1>>)>>]

\* The names of the ranges of blocks first..last.
RangeNames == UNION {{FileName(first, last) : last \in first..MaxHeight} : first \in Heights}

\* The digits of 2^32, the least value out of the range of 32 bits.
OverUint32Digits == <<4, 2, 9, 4, 9, 6, 7, 2, 9, 6>>

\* Names that do not parse: one without a dash, one with a letter, one with
\* a number out of range.
BadNames ==
    {Pad(1, NameDigits),
     Pad(1, NameDigits) \o <<Dash, Letter>>,
     Pad(1, NameDigits) \o <<Dash>> \o OverUint32Digits}

\* The object of a name: a range's object holds the requests of its blocks.
ObjectNamed(name, corrupt) ==
    LET parsed == parseFileName(name)
    IN [name |-> name,
        content |->
            [requests |->
                 IF parsed.err THEN <<>>
                 ELSE [i \in 1..(parsed.last - parsed.first + 1) |->
                          InjectRequest(parsed.first + i - 1)],
             corrupt |-> corrupt]]

Directories ==
    UNION {{{ObjectNamed(n, n \in bad) : n \in names} : bad \in SUBSET (names \cap RangeNames)} :
              names \in {ns \in SUBSET (RangeNames \cup BadNames) : Cardinality(ns) <= MaxObjects}}

InjectInit ==
    /\ db \in {WriteBatch({}, [h \in 1..k |-> InjectRequest(h)], 0) : k \in 0..MaxHeight}
    /\ ingested = <<>>
    /\ BatchUnused
    /\ RunUnused
    /\ objects \in {[shard \in Shards |-> IF shard = 0 THEN dir ELSE {}] : dir \in Directories}
    /\ sharder = NewSharder(1, 1, 1)

\* Run starts: the tracker is read from the store and Walk lists the names.
RunStart ==
    /\ runPc # "walking"
    /\ startAfterNum' = FetchLastWrittenBlock(db, shardIndex)
    /\ remaining' = SortNames({o.name : o \in objects[shardIndex]})
    /\ runPc' = "walking"
    /\ calls' = <<>>
    /\ opened' = {}
    /\ UNCHANGED <<storeVars, batchVars, shardVars, shardIndex>>

\* Walk hands the next name to the callback; its error ends the walk.
RunFileStep(failure) ==
    /\ runPc = "walking"
    /\ remaining # <<>>
    /\ LET filename == Head(remaining)
           r == WalkFile(db, shardIndex, objects[shardIndex], filename, startAfterNum, failure)
       IN /\ failure.fails => r.err = "write"
          /\ db' = r.items
          /\ startAfterNum' = r.startAfter
          /\ opened' = IF r.opened THEN opened \cup {filename} ELSE opened
          /\ calls' = IF r.wrote
                      THEN Append(calls, [name |-> filename, startAfter |-> startAfterNum,
                                          requests |-> r.requests])
                      ELSE calls
          /\ runPc' = IF r.err = "nil" THEN "walking"
                      ELSE IF failure.cancelled THEN "terminated" ELSE "failed"
          /\ remaining' = IF r.err = "nil" THEN Tail(remaining) ELSE remaining
    /\ UNCHANGED <<ingested, batchVars, shardVars, shardIndex>>

\* The callback with a backend that does not fail.
RunFile ==
    /\ remaining # <<>>
    /\ RunFileStep(NoFailure)

\* The callback with a backend that fails the WriteBatch.
RunFileWriteFails ==
    /\ remaining # <<>>
    /\ \E n \in 0..Len(tableNames) : RunFileStep(WriteFailure(n))

\* The application terminates while the callback is in WriteBatch:
\* OnTerminating cancels the context that Run gave to WriteBatch.
RunFileShutdown ==
    /\ remaining # <<>>
    /\ \E n \in 0..Len(tableNames) : RunFileStep(Cancelled(n))

\* The application terminates between two objects: Walk returns the
\* context's error.
RunShutdown ==
    /\ runPc = "walking"
    /\ runPc' = "terminated"
    /\ UNCHANGED <<storeVars, batchVars, shardVars, shardIndex, remaining, startAfterNum,
                   calls, opened>>

\* Walk has handed every name: Run returns nil.
RunEnd ==
    /\ runPc = "walking"
    /\ remaining = <<>>
    /\ runPc' = "returned"
    /\ UNCHANGED <<storeVars, batchVars, shardVars, shardIndex, remaining, startAfterNum,
                   calls, opened>>

InjectNext == RunStart \/ RunFile \/ RunFileWriteFails \/ RunEnd

SpecInject == InjectInit /\ [][InjectNext]_vars

\* The injector with an application that may terminate at any moment.
ShutdownNext == InjectNext \/ RunFileShutdown \/ RunShutdown

SpecShutdown == InjectInit /\ [][ShutdownNext]_vars

\* ------------------------------------------------------------------------
\* Sharding, then injection of every shard into one store
\*
\* Sharders of consecutive ranges take the blocks of a stream; when the last
\* one has stopped, shard after shard is injected.
\* ------------------------------------------------------------------------

\* The WriteRequests of a block of the stream at height h.
ShardChoices(h) ==
    {[Height |-> h,
      SingletEntries |-> <<SingletEntry(Singlet1, h, <<1>>)>>,
      TabletRows |-> <<TabletRow(Tablet2, 1, h, <<1>>), TabletRow(Tablet1, 2, h, <<2>>)>>],
     [Height |-> h,
      SingletEntries |-> <<SingletEntry(Singlet2, h, <<2>>), SingletEntry(Singlet1, h, <<>>)>>,
      TabletRows |-> <<TabletRow(Tablet1, 1, h, <<1>>)>>],
     [Height |-> h,
      SingletEntries |-> <<>>,
      TabletRows |-> <<TabletRow(Tablet1, 1, h, <<>>), TabletRow(Tablet2, 2, h, <<2>>)>>]}

\* The request of the block that ends a Sharder's range, as endBlock builds it.
EndRequest(h) == [Height |-> h, SingletEntries |-> <<>>, TabletRows |-> <<>>]

\* The store after direct ingestion of the requests.
RECURSIVE DirectStore(_)
DirectStore(requests) ==
    IF requests = <<>> THEN {}
    ELSE Ingest(DirectStore(SubSeq(requests, 1, Len(requests) - 1)),
                requests[Len(requests)], Unsharded)

ShardInit ==
    /\ db = {}
    /\ ingested = <<>>
    /\ BatchUnused
    /\ RunUnused
    /\ objects = [shard \in Shards |-> {}]
    /\ sharder \in {NewSharder(n, 1, stop) : n \in 1..MaxShards, stop \in Heights}

\* The stream's next block is processed by the Sharder.
ShardProcessBlock ==
    /\ runPc = "idle" /\ shardIndex = 0
    /\ sharder.err # ErrCleanSourceStop
    /\ LET h == LastHeight(ingested) + 1
       IN \E req \in IF h <= sharder.stopBlock THEN ShardChoices(h) ELSE {EndRequest(h)} :
              LET r == ProcessBlock(sharder, objects, req)
              IN /\ sharder' = r.sharder
                 /\ objects' = r.objects
                 /\ ingested' = IF r.sharder.err = "nil" THEN Append(ingested, req) ELSE ingested
    /\ UNCHANGED <<db, batchVars, runVars>>

\* A Sharder of the next range is started.
ShardNewSharder ==
    /\ runPc = "idle" /\ shardIndex = 0
    /\ sharder.err = ErrCleanSourceStop
    /\ \E stop \in Heights :
           /\ stop > sharder.stopBlock
           /\ sharder' = NewSharder(sharder.shardCount, sharder.stopBlock + 1, stop)
    /\ UNCHANGED <<storeVars, batchVars, runVars, objects>>

\* The injector's Run starts on the directory of the shard the store is set to.
ShardRunStart ==
    /\ sharder.err = ErrCleanSourceStop
    /\ RunStart

\* SetSharding: the store is set to the next shard.
SetSharding ==
    /\ runPc = "returned"
    /\ shardIndex + 1 < sharder.shardCount
    /\ shardIndex' = shardIndex + 1
    /\ runPc' = "idle"
    /\ UNCHANGED <<storeVars, batchVars, shardVars, remaining, startAfterNum, calls, opened>>

ShardNext ==
    \/ ShardProcessBlock
    \/ ShardNewSharder
    \/ ShardRunStart
    \/ RunFile
    \/ RunEnd
    \/ SetSharding

SpecShard == ShardInit /\ [][ShardNext]_vars

\* ------------------------------------------------------------------------
\* What was written, read back from the history of the ingested requests
\* ------------------------------------------------------------------------

\* The heights a read is asked for.
QueryHeights == 0..(MaxHeight + 1)

WrittenEntries(requests) == Flatten([n \in 1..Len(requests) |-> requests[n].SingletEntries])
WrittenRows(requests) == Flatten([n \in 1..Len(requests) |-> requests[n].TabletRows])

\* The entries written for a singlet, and the mutations written for a row,
\* oldest first.
EntriesOf(singlet) == SelectSeq(WrittenEntries(ingested), LAMBDA e : e.singlet = singlet)
MutationsOf(tablet, rowKey) ==
    SelectSeq(WrittenRows(ingested), LAMBDA r : r.tablet = tablet /\ r.rowKey = rowKey)

\* The latest element of a history at a height <= h: <<e>>, or <<>>.
LatestAt(history, h) ==
    LET upTo == SelectSeq(history, LAMBDA e : e.height <= h)
    IN IF upTo = <<>> THEN <<>> ELSE <<upTo[Len(upTo)]>>

NoDeletion(history) == \A n \in 1..Len(history) : ~IsDeletion(history[n].value)

\* The row of a row key in a tablet read: <<row>>, or <<>>.
RowIn(rows, rowKey) == SelectSeq(rows, LAMBDA r : r.rowKey = rowKey)

\* ------------------------------------------------------------------------
\* C3: for a singlet with entries written at heights h1 < h2 < ... < hn, each
\* in its own write batch, none a deletion, and no speculative writes,
\* ReadSingletEntryAt(h) is absent for h < h1, the entry written at hi for
\* hi <= h < h(i+1), and the entry written at hn for h >= hn.
\* ------------------------------------------------------------------------
C3_ReadSingletAt ==
    \A sg \in Singlets :
        LET es == EntriesOf(sg)
            n == Len(es)
            read(h) == ReadSingletEntryAt(db, sg, h, <<>>)
        IN NoDeletion(es) =>
            \A h \in QueryHeights :
                /\ (n = 0 \/ h < es[1].height) => read(h) = <<>>
                /\ \A i \in 1..(n - 1) :
                       (es[i].height <= h /\ h < es[i + 1].height) => read(h) = <<es[i]>>
                /\ (n > 0 /\ h >= es[n].height) => read(h) = <<es[n]>>

\* Singlet1 was written at heights 1 and 3 with different payloads, and is read
\* before, between, on and after them.
C3_Witness ==
    LET es == EntriesOf(Singlet1)
    IN /\ es = <<SingletEntry(Singlet1, 1, <<1>>), SingletEntry(Singlet1, 3, <<2>>)>>
       /\ ReadSingletEntryAt(db, Singlet1, 0, <<>>) = <<>>
       /\ ReadSingletEntryAt(db, Singlet1, 2, <<>>) = <<es[1]>>
       /\ ReadSingletEntryAt(db, Singlet1, 3, <<>>) = <<es[2]>>
       /\ ReadSingletEntryAt(db, Singlet1, 4, <<>>) = <<es[2]>>

\* ------------------------------------------------------------------------
\* C4: a deletion written for a singlet or a tablet row at height h makes
\* every read at a height h' >= h report it absent until a later write that
\* is no deletion, at h'' > h, from which height on the new value is read; and
\* writing the deletion leaves the reads at the heights below h as they were.
\* ------------------------------------------------------------------------
C4_TombstoneState ==
    /\ \A sg \in Singlets : \A h \in QueryHeights :
           LET last == LatestAt(EntriesOf(sg), h)
               read == ReadSingletEntryAt(db, sg, h, <<>>)
           IN /\ (last # <<>> /\ IsDeletion(last[1].value)) => read = <<>>
              /\ (last # <<>> /\ ~IsDeletion(last[1].value)) => read = last
    /\ \A t \in Tablets : \A rk \in RowKeys : \A h \in QueryHeights :
           LET last == LatestAt(MutationsOf(t, rk), h)
               read == RowIn(ReadTabletAt(db, h, t, <<>>), rk)
           IN /\ (last # <<>> /\ IsDeletion(last[1].value)) => read = <<>>
              /\ (last # <<>> /\ ~IsDeletion(last[1].value)) => read = last

\* The block just written, when this step wrote one.
WroteBlock == ingested' # ingested
NewBlock == ingested'[Len(ingested')]

C4_TombstoneStep ==
    WroteBlock =>
        /\ \A n \in 1..Len(NewBlock.SingletEntries) :
               LET e == NewBlock.SingletEntries[n]
               IN IsDeletion(e.value) =>
                      \A h \in QueryHeights :
                          h < e.height => ReadSingletEntryAt(db', e.singlet, h, <<>>)
                                              = ReadSingletEntryAt(db, e.singlet, h, <<>>)
        /\ \A n \in 1..Len(NewBlock.TabletRows) :
               LET r == NewBlock.TabletRows[n]
               IN IsDeletion(r.value) =>
                      \A h \in QueryHeights :
                          h < r.height => ReadTabletAt(db', h, r.tablet, <<>>)
                                              = ReadTabletAt(db, h, r.tablet, <<>>)

C4_Tombstone == [](C4_TombstoneState) /\ [][C4_TombstoneStep]_vars

\* Singlet1 was written, deleted at height 2 and written again at height 3;
\* row 1 of Tablet1 was written at height 1 and deleted at height 2.
C4_WitnessSinglet ==
    /\ EntriesOf(Singlet1) = <<SingletEntry(Singlet1, 1, <<1>>), SingletEntry(Singlet1, 2, <<>>),
                               SingletEntry(Singlet1, 3, <<2>>)>>
    /\ ReadSingletEntryAt(db, Singlet1, 1, <<>>) = <<SingletEntry(Singlet1, 1, <<1>>)>>
    /\ ReadSingletEntryAt(db, Singlet1, 2, <<>>) = <<>>
    /\ ReadSingletEntryAt(db, Singlet1, 3, <<>>) = <<SingletEntry(Singlet1, 3, <<2>>)>>

\* ... and row 1 of Tablet2 was written at height 1, deleted at height 2 and
\* written again at height 3.
C4_Witness ==
    /\ C4_WitnessSinglet
    /\ MutationsOf(Tablet2, 1) = <<TabletRow(Tablet2, 1, 1, <<2>>), TabletRow(Tablet2, 1, 2, <<>>),
                                   TabletRow(Tablet2, 1, 3, <<2>>)>>
    /\ ReadTabletAt(db, 1, Tablet2, <<>>) = <<TabletRow(Tablet2, 1, 1, <<2>>)>>
    /\ ReadTabletAt(db, 2, Tablet2, <<>>) = <<>>
    /\ ReadTabletAt(db, 3, Tablet2, <<>>) = <<TabletRow(Tablet2, 1, 3, <<2>>)>>

\* ------------------------------------------------------------------------
\* C5: ReadTabletAt(height, tablet) returns exactly one row per row key that
\* has a mutation at a height <= height and whose latest such mutation is no
\* deletion, each row with the payload and the height of that mutation, by
\* ascending row key.
\* ------------------------------------------------------------------------
C5_ReadTabletAt ==
    \A t \in Tablets : \A h \in QueryHeights :
        LET rows == ReadTabletAt(db, h, t, <<>>)
            live == {rk \in RowKeys : LET last == LatestAt(MutationsOf(t, rk), h)
                                      IN last # <<>> /\ ~IsDeletion(last[1].value)}
        IN /\ \A n \in 1..(Len(rows) - 1) : rows[n].rowKey < rows[n + 1].rowKey
           /\ {rows[n].rowKey : n \in 1..Len(rows)} = live
           /\ \A n \in 1..Len(rows) :
                  <<rows[n]>> = LatestAt(MutationsOf(t, rows[n].rowKey), h)

\* Rows 1 and 2 of Tablet1 were written at height 1 and row 2 was overwritten
\* at height 3 (and row 1 of Tablet2 deleted at height 2).
C5_Witness ==
    /\ MutationsOf(Tablet1, 1) = <<TabletRow(Tablet1, 1, 1, <<1>>)>>
    /\ MutationsOf(Tablet1, 2) = <<TabletRow(Tablet1, 2, 1, <<1>>), TabletRow(Tablet1, 2, 3, <<1>>)>>
    /\ ReadTabletAt(db, 3, Tablet1, <<>>) = <<TabletRow(Tablet1, 1, 1, <<1>>),
                                               TabletRow(Tablet1, 2, 3, <<1>>)>>
    /\ ReadTabletAt(db, 2, Tablet1, <<>>) = <<TabletRow(Tablet1, 1, 1, <<1>>),
                                               TabletRow(Tablet1, 2, 1, <<1>>)>>
    /\ ReadTabletAt(db, 2, Tablet2, <<>>) = <<>>

\* ------------------------------------------------------------------------
\* The object Run's callback is about to be handed
\* ------------------------------------------------------------------------

AtObject == runPc = "walking" /\ remaining # <<>>

NextParsed == parseFileName(Head(remaining))

NextContent == OpenObject(objects[shardIndex], Head(remaining))

HandedUnopened ==
    {o \in objects[shardIndex] :
        /\ \A n \in 1..Len(remaining) : remaining[n] # o.name
        /\ o.name \notin opened}

\* ------------------------------------------------------------------------
\* C6: when the injector reaches an object whose first block is greater than
\* the watermark tracker + 1, Run fails at once: the object is not opened,
\* WriteBatch is not called and the store is left as it is; and once Run has
\* failed the store does not change and no WriteBatch call is added until a
\* new Run starts.
\* ------------------------------------------------------------------------
C6_GapStep ==
    /\ (AtObject /\ ~NextParsed.err /\ NextParsed.first > startAfterNum + 1) =>
           /\ runPc' = "failed"
           /\ db' = db
           /\ calls' = calls
           /\ opened' = opened
           /\ remaining' = remaining
    /\ runPc = "failed" =>
           /\ db' = db
           /\ calls' = calls \/ (runPc' = "walking" /\ calls' = <<>>)

C6_GapAborts == [][C6_GapStep]_vars

\* Run has failed at an object that leaves a hole after the tracker, with a
\* later object still to come.
C6_Witness ==
    /\ runPc = "failed"
    /\ Len(remaining) >= 2
    /\ ~NextParsed.err
    /\ NextParsed.first > startAfterNum + 1
    /\ opened = {}

\* ------------------------------------------------------------------------
\* C7: when the injector reaches an object whose last block is <= the
\* watermark tracker, the object is skipped: it is not opened, WriteBatch is
\* not called, the store and the tracker are unchanged and the walk goes on
\* with the next object.
\* ------------------------------------------------------------------------
C7_SkipStep ==
    (AtObject /\ ~NextParsed.err /\ NextParsed.last <= startAfterNum) =>
        /\ runPc' = "walking"
        /\ remaining' = Tail(remaining)
        /\ db' = db
        /\ startAfterNum' = startAfterNum
        /\ calls' = calls
        /\ opened' = opened

C7_SkipsApplied == [][C7_SkipStep]_vars

\* The walk has skipped an object, has gone on, and has written a later one.
C7_Witness ==
    /\ runPc = "returned"
    /\ calls # <<>>
    /\ \E o \in HandedUnopened :
           /\ ~parseFileName(o.name).err
           /\ parseFileName(o.name).last < calls[1].startAfter + 1
           /\ LexLess(o.name, calls[1].name)

\* ------------------------------------------------------------------------
\* C8: for an object that is neither a gap nor skipped, and that decodes,
\* the injector calls WriteBatch exactly once, with exactly the requests of
\* the object whose height is greater than the watermark tracker, in the
\* order of the object; no request at a height <= the tracker is in any call,
\* and no object gets two calls.
\* ------------------------------------------------------------------------
C8_CallsState ==
    /\ \A i \in 1..Len(calls) :
           \A n \in 1..Len(calls[i].requests) :
               calls[i].requests[n].Height > calls[i].startAfter
    /\ \A i \in 1..Len(calls) : \A j \in 1..Len(calls) : calls[i].name = calls[j].name => i = j

C8_WriteStep ==
    IF /\ AtObject
       /\ ~NextParsed.err
       /\ ~(NextParsed.first > startAfterNum + 1)
       /\ ~(NextParsed.last <= startAfterNum)
       /\ ~NextContent.corrupt
    THEN LET newer == SelectSeq(NextContent.requests, LAMBDA req : req.Height > startAfterNum)
         IN /\ calls' = Append(calls, [name |-> Head(remaining), startAfter |-> startAfterNum,
                                       requests |-> newer])
            /\ runPc' = "walking" =>
                   /\ db' = WriteBatch(db, newer, shardIndex)
                   /\ startAfterNum' = NextParsed.last
    ELSE calls' = calls \/ (runPc' = "walking" /\ calls' = <<>>)

C8_OneBatchOfNewer == [](C8_CallsState) /\ [][C8_WriteStep]_vars

\* An object that overlaps the tracker was written: a part of its requests
\* was discarded, the rest was the batch.
C8_Witness ==
    \E i \in 1..Len(calls) :
        /\ calls[i].requests # <<>>
        /\ Len(calls[i].requests) < Len(OpenObject(objects[shardIndex], calls[i].name).requests)
        /\ FetchLastWrittenBlock(db, shardIndex) > calls[i].startAfter

\* ------------------------------------------------------------------------
\* C2: for every stream of blocks, every number of shards and every cut of
\* the stream in Sharder ranges, once every shard's objects are injected into
\* the fresh store no Run has failed and, for every singlet, every tablet and
\* every height, ReadSingletEntryAt and ReadTabletAt return what they return
\* on the store of the direct ingestion of the same blocks.
\* ------------------------------------------------------------------------
AllInjected ==
    /\ sharder.err = ErrCleanSourceStop
    /\ runPc = "returned"
    /\ shardIndex = sharder.shardCount - 1

C2_ShardedEqualsDirect ==
    /\ runPc # "failed"
    /\ AllInjected =>
           LET direct == DirectStore(ingested)
           IN \A h \in QueryHeights :
                  /\ \A singlet \in Singlets :
                         ReadSingletEntryAt(db, singlet, h, <<>>)
                             = ReadSingletEntryAt(direct, singlet, h, <<>>)
                  /\ \A tablet \in Tablets :
                         ReadTabletAt(db, h, tablet, <<>>) = ReadTabletAt(direct, h, tablet, <<>>)

\* Two shards, each with the objects of two ranges, are injected, and the
\* store has entries and rows to read.
C2_Witness ==
    /\ AllInjected
    /\ sharder.shardCount = 2
    /\ Len(ingested) >= 3
    /\ \A shard \in 0..1 : Cardinality(objects[shard]) >= 2
    /\ ReadSingletEntryAt(db, Singlet1, Len(ingested), <<>>) # <<>>
    /\ ReadTabletAt(db, Len(ingested), Tablet2, <<>>) # <<>>

\* ------------------------------------------------------------------------
\* C9: a block up to and including the stop block is processed without an
\* error and writes no object; the first block past the stop block makes
\* ProcessBlock write every shard's accumulated WriteRequests to the shard's
\* object of the range and return ErrCleanSourceStop.
\* ------------------------------------------------------------------------
ProcessedBlock == sharder'.num > sharder.num

ShardsWritten ==
    \A shard \in 0..(sharder.shardCount - 1) :
        [name |-> FileName(sharder.startBlock, sharder.stopBlock),
         content |-> [requests |-> sharder.buffers[shard], corrupt |-> FALSE]]
            \in objects'[shard]

C9_StopStep ==
    ProcessedBlock =>
        IF sharder'.num > sharder.stopBlock
        THEN sharder'.err = ErrCleanSourceStop /\ ShardsWritten
        ELSE sharder'.err = "nil" /\ objects' = objects

C9_CleanStopPastStopBlock == [][C9_StopStep]_vars

\* The statement with the clean stop at the stop block itself.
C9_StopAtStopBlockStep ==
    ProcessedBlock =>
        /\ sharder'.num = sharder.stopBlock =>
               sharder'.err = ErrCleanSourceStop /\ ShardsWritten
        /\ sharder'.num < sharder.stopBlock => sharder'.err = "nil"

C9_CleanStopAtStopBlock == [][C9_StopAtStopBlockStep]_vars

\* A Sharder of two shards has taken its blocks up to the stop block and has
\* stopped at the next one, its objects written.
C9_Witness ==
    /\ sharder.err = ErrCleanSourceStop
    /\ sharder.num = sharder.stopBlock + 1
    /\ sharder.shardCount = 2
    /\ \A shard \in 0..1 :
           /\ Len(sharder.buffers[shard]) = sharder.stopBlock - sharder.startBlock + 1
           /\ \E o \in objects[shard] :
                  /\ o.name = FileName(sharder.startBlock, sharder.stopBlock)
                  /\ o.content.requests = sharder.buffers[shard]

\* ------------------------------------------------------------------------
\* C10: unpackKey(packKey(t, k)) = (t, k) for every table prefix t and key k,
\* so the key a scan or a batch fetch hands to the row callback is the key
\* the row was written under, without the table prefix byte.
\* ------------------------------------------------------------------------
C10_KeyRoundTrip ==
    /\ \A it \in db :
           LET t == it.key[1]
               k == Tail(it.key)
           IN unpackKey(packKey(t, k)) = <<t, k>>
    /\ \A n \in 1..Len(WrittenEntries(ingested)) :
           LET e == WrittenEntries(ingested)[n]
               k == KeyForSingletEntry(e.singlet, e.height)
           IN /\ ScanTabletRows(db, k, k \o <<0>>, AlwaysNil).rows = <<Item(k, e.value)>>
              /\ FetchTabletRows(db, <<k>>, AlwaysNil).rows = <<Item(k, e.value)>>

\* ------------------------------------------------------------------------
\* C11: FlushIfFull flushes the batch if and only if its count is greater
\* than maxMutationCount (100): at a count <= 100 it returns nil and leaves
\* the backend, the buffers and the count as they are; above 100 it does what
\* Flush does, and a Flush that FlushIfFull starts starts above 100 only.
\* ------------------------------------------------------------------------
C11_FlushIfFullState ==
    pc = "idle" =>
        LET r == FlushIfFull(db, batch)
        IN /\ r.err = "nil"
           /\ r.flushes <=> batch.count > maxMutationCount
           /\ batch.count <= maxMutationCount =>
                  r.items = db /\ r.batch = batch /\ r.batch.count = batch.count
           /\ batch.count > maxMutationCount =>
                  r.items = FlushedStore(db, batch) /\ r.batch = Reset

C11_FlushIfFullStep ==
    (pc = "idle" /\ pc' = "flush" /\ flushBy' = "FlushIfFull") =>
        /\ batch.count > maxMutationCount
        /\ db' = db
        /\ batch' = batch

C11_FlushIfFullThreshold == [](C11_FlushIfFullState) /\ [][C11_FlushIfFullStep]_vars

\* FlushIfFull has started the Flush of a batch of 101 mutations.
C11_Witness ==
    /\ pc = "flush"
    /\ flushBy = "FlushIfFull"
    /\ batch.count = maxMutationCount + 1
    /\ flushed # {}

\* ---------------------------------------------------------------------------
\* C12
\* ---------------------------------------------------------------------------

\* The position of the last Flush among the calls, 0 when there is none.
LastFlushAt ==
    LET at == {n \in 1..Len(sets) : sets[n].op = "Flush"}
    IN IF at = {} THEN 0 ELSE CHOOSE n \in at : \A m \in at : m <= n

\* The positions, among from..to, of the Set calls on key of table.
SetsOf(table, key, from, to) ==
    {n \in from..to : sets[n].op # "Flush" /\ sets[n].table = table /\ sets[n].key = key}

LastOf(ns) == CHOOSE n \in ns : \A m \in ns : m <= n

\* C12: the batch holds, for every key of every table, exactly the value of
\* the last Set call made on that key of that table since the last reset, and
\* nothing for a key that was not set since (so a Set in one table leaves the
\* other tables' pending values alone); and after a Flush that met no error the
\* backend holds, for every key set before it, the value of its last Set.
C12_LastSetWins ==
    \A table \in Tables, key \in SetKeys :
        LET pending == SetsOf(table, key, LastFlushAt + 1, Len(sets))
            done == SetsOf(table, key, 1, LastFlushAt)
        IN /\ pending # {} => Get(batch.tableMutations[table], key) = sets[LastOf(pending)].value
           /\ pending = {} => ~HasKey(batch.tableMutations[table], key)
           /\ Cardinality({m \in batch.tableMutations[table] : m.key = key}) <= 1
           /\ done # {} => Get(db, packKey(table, key)) = sets[LastOf(done)].value
           /\ done = {} => ~HasKey(db, packKey(table, key))

\* One key of ROWS was set twice with different values and the same key of
\* INDEX once with a third call, and the batch was flushed.
C12_Witness ==
    /\ Len(sets) = 4
    /\ sets[1] = SetCall("SetRow", TblPrefixRows, <<1>>, <<1>>)
    /\ sets[2] = SetCall("SetIndex", TblPrefixIndex, <<1>>, <<1>>)
    /\ sets[3] = SetCall("SetRow", TblPrefixRows, <<1>>, <<>>)
    /\ sets[4] = FlushCall
    /\ Get(db, packKey(TblPrefixRows, <<1>>)) = <<>>
    /\ Get(db, packKey(TblPrefixIndex, <<1>>)) = <<1>>

\* ---------------------------------------------------------------------------
\* C13
\* ---------------------------------------------------------------------------

\* The keys of table in the backend, in key order, as the callers give them.
TableKeys(table) ==
    LET its == SortByKey({i \in db : i.key[1] = table})
    IN [n \in 1..Len(its) |-> SubSeq(its[n].key, 2, Len(its[n].key))]

\* r is what is left of the full delivery all when the callback stops at key
\* with the error err: the rows up to the one of key, and err.
StoppedAt(r, all, key, err) ==
    LET at == {n \in 1..Len(all.rows) : all.rows[n].key = key}
    IN IF at = {} THEN r = all
       ELSE /\ r.rows = SubSeq(all.rows, 1, CHOOSE n \in at : \A m \in at : n <= m)
            /\ r.err = err

\* The keys the callback is handed by a full delivery.
HandedKeys(all) == {all.rows[n].key : n \in 1..Len(all.rows)}

\* C13: a callback that returns BreakScan at some row is handed no row after
\* it and the read operation returns nil, never the sentinel; a callback that
\* returns another error is handed no row after it either and the operation
\* returns an error. The operations whose callback is their own
\* (FetchSingletEntry, FetchIndex, HasTabletRow) break at their first row and
\* return neither the sentinel nor a scan error.
C13_BreakScanNeverLeaks ==
    LET fetchAll == FetchTabletRows(db, TableKeys(TblPrefixRows), AlwaysNil)
        scanAll == ScanTabletRows(db, <<>>, <<>>, AlwaysNil)
        lastAll == ScanLastShardsWrittenBlock(db, <<>>, AlwaysNil)
    IN /\ fetchAll.err = "nil" /\ scanAll.err = "nil" /\ lastAll.err = "nil"
       /\ \A key \in HandedKeys(fetchAll) :
              /\ StoppedAt(FetchTabletRows(db, TableKeys(TblPrefixRows), AnswerAt(key, BreakScan)),
                           fetchAll, key, "nil")
              /\ StoppedAt(FetchTabletRows(db, TableKeys(TblPrefixRows), AnswerAt(key, "error")),
                           fetchAll, key, "error")
       /\ \A key \in HandedKeys(scanAll) :
              /\ StoppedAt(ScanTabletRows(db, <<>>, <<>>, AnswerAt(key, BreakScan)),
                           scanAll, key, "nil")
              /\ StoppedAt(ScanTabletRows(db, <<>>, <<>>, AnswerAt(key, "error")),
                           scanAll, key, "error")
       /\ \A key \in HandedKeys(lastAll) :
              /\ StoppedAt(ScanLastShardsWrittenBlock(db, <<>>, AnswerAt(key, BreakScan)),
                           lastAll, key, "nil")
              /\ StoppedAt(ScanLastShardsWrittenBlock(db, <<>>, AnswerAt(key, "error")),
                           lastAll, key, "error")
       /\ LET e == FetchSingletEntry(db, <<>>, <<>>)
          IN /\ e.err = "nil"
             /\ Len(scanAll.rows) > 0 => e.key = scanAll.rows[1].key /\ e.value = scanAll.rows[1].value
       /\ FetchIndex(db, <<>>, <<>>, <<>>).err \notin {BreakScan, "error"}
       /\ LET h == HasTabletRow(db, <<>>)
          IN h.err = "nil" /\ (h.exists <=> Len(scanAll.rows) > 0)

\* Two rows are stored, and a callback that breaks at the first one is handed
\* one row by ScanTabletRows and by FetchTabletRows, with no error; one that
\* fails there gets an error.
C13_Witness ==
    LET scanAll == ScanTabletRows(db, <<>>, <<>>, AlwaysNil)
    IN /\ Len(scanAll.rows) = 2
       /\ Len(ScanTabletRows(db, <<>>, <<>>, AnswerAt(scanAll.rows[1].key, BreakScan)).rows) = 1
       /\ ScanTabletRows(db, <<>>, <<>>, AnswerAt(scanAll.rows[1].key, BreakScan)).err = "nil"
       /\ Len(FetchTabletRows(db, TableKeys(TblPrefixRows),
                              AnswerAt(scanAll.rows[1].key, BreakScan)).rows) = 1
       /\ ScanTabletRows(db, <<>>, <<>>, AnswerAt(scanAll.rows[1].key, "error")).err = "error"
       /\ \E i \in db : i.key[1] = TblPrefixLast

\* ---------------------------------------------------------------------------
\* C15
\* ---------------------------------------------------------------------------

\* A key that no Set call uses.
MissingKey == <<3>>

\* The lists of keys a caller asks for: up to two keys, set or never set.
RequestedKeys ==
    LET ks == SetKeys \cup {MissingKey}
    IN {<<>>} \cup {<<k>> : k \in ks} \cup {<<k1, k2>> : k1 \in ks, k2 \in ks}

\* C15: FetchTabletRows calls the callback once for each requested key that
\* the ROWS table of the backend holds, in the order of the request and with
\* the stored value, an empty one included, and not at all for a requested
\* key that the ROWS table does not hold.
C15_PresentKeysOnly ==
    \A keys \in RequestedKeys :
        LET r == FetchTabletRows(db, keys, AlwaysNil)
            present == SelectSeq(keys, LAMBDA k : HasKey(db, packKey(TblPrefixRows, k)))
        IN /\ r.err = "nil"
           /\ Len(r.rows) = Len(present)
           /\ \A n \in 1..Len(present) :
                  /\ r.rows[n].key = unpackKey(packKey(TblPrefixRows, present[n]))[2]
                  /\ r.rows[n].value = Get(db, packKey(TblPrefixRows, present[n]))

\* The backend holds a row with an empty value and not the other key, though
\* the INDEX table holds a key of the same bytes as the row; the empty row is
\* handed to the callback.
C15_Witness ==
    /\ Get(db, packKey(TblPrefixRows, <<1>>)) = <<>>
    /\ ~HasKey(db, packKey(TblPrefixRows, <<2>>))
    /\ HasKey(db, packKey(TblPrefixIndex, <<1>>))
    /\ Len(FetchTabletRows(db, << <<2>>, <<1>> >>, AlwaysNil).rows) = 1
    /\ FetchTabletRows(db, << <<2>>, <<1>> >>, AlwaysNil).rows[1].value = <<>>

\* ---------------------------------------------------------------------------
\* C17
\* ---------------------------------------------------------------------------

\* A speculative WriteRequest at height h: it writes value to Singlet1, or to
\* row 1 of Tablet1.
SpeculativeRequest(h, target, value) ==
    [Height |-> h,
     SingletEntries |-> IF target = "singlet" THEN <<SingletEntry(Singlet1, h, value)>> ELSE <<>>,
     TabletRows |-> IF target = "row" THEN <<TabletRow(Tablet1, 1, h, value)>> ELSE <<>>]

\* The speculative lists of a read: one request at the height above the last
\* written block, or two at the two heights above it, the second undoing or
\* redoing what the first did.
SpeculativeLists ==
    LET top == LastHeight(ingested)
        values == {<<1>>, <<>>}
    IN {<<SpeculativeRequest(top + 1, t, v)>> : t \in {"singlet", "row"}, v \in values}
       \cup {<<SpeculativeRequest(top + 1, t, v),
               SpeculativeRequest(top + 2, t, IF v = <<>> THEN <<1>> ELSE <<>>)>> :
                 t \in {"singlet", "row"}, v \in values}

\* C17: with a speculative list that is not empty, a read at height h of a
\* singlet, or of a row of a tablet, for which the list holds writes at a
\* height <= h gives the most recent of these writes, whatever is persisted,
\* and gives it absent when that write is a deletion; for a singlet or a row
\* with no such write the read is the one of the persisted store.
C17_SpeculativeWins ==
    \A h \in LastHeight(ingested)..(LastHeight(ingested) + 2) :
        LET persistedEntry == ReadSingletEntryAt(db, Singlet1, h, <<>>)
            persistedRows == ReadTabletAt(db, h, Tablet1, <<>>)
        IN \A list \in SpeculativeLists :
               IF list[1].SingletEntries # <<>>
               THEN LET won == LatestAt(SelectSeq(WrittenEntries(list),
                                                 LAMBDA e : e.singlet = Singlet1), h)
                        read == ReadSingletEntryAt(db, Singlet1, h, list)
                    IN IF won = <<>> THEN read = persistedEntry
                       ELSE read = IF IsDeletion(won[1].value) THEN <<>> ELSE won
               ELSE LET read == ReadTabletAt(db, h, Tablet1, list)
                    IN \A rk \in RowKeys :
                           LET won == LatestAt(SelectSeq(WrittenRows(list),
                                                         LAMBDA r : r.tablet = Tablet1
                                                                    /\ r.rowKey = rk), h)
                           IN IF won = <<>> THEN RowIn(read, rk) = RowIn(persistedRows, rk)
                              ELSE RowIn(read, rk) = IF IsDeletion(won[1].value) THEN <<>> ELSE won

\* As in TestReadWithSpeculative: row 1 of Tablet1 is persisted at height 1,
\* the speculative list deletes it at height 2, and the tablet read at height
\* 2 has no row 1 while the read at height 1 still has it.
C17_Witness ==
    /\ LastHeight(ingested) = 1
    /\ RowIn(ReadTabletAt(db, 2, Tablet1, <<>>), 1) = <<TabletRow(Tablet1, 1, 1, <<1>>)>>
    /\ <<SpeculativeRequest(2, "row", <<>>)>> \in SpeculativeLists
    /\ RowIn(ReadTabletAt(db, 2, Tablet1, <<SpeculativeRequest(2, "row", <<>>)>>), 1) = <<>>
    /\ RowIn(ReadTabletAt(db, 1, Tablet1, <<SpeculativeRequest(2, "row", <<>>)>>), 1)
           = <<TabletRow(Tablet1, 1, 1, <<1>>)>>

\* ---------------------------------------------------------------------------
\* C14
\* ---------------------------------------------------------------------------

\* The callback gets as far as reading the next object.
ReadsObject ==
    /\ AtObject
    /\ ~NextParsed.err
    /\ ~(NextParsed.first > startAfterNum + 1)
    /\ ~(NextParsed.last <= startAfterNum)

\* C14: when the object the callback reads does not decode, Run fails with
\* no WriteBatch call, the store and the tracker as they were; when WriteBatch
\* fails, Run fails after that one call with the tracker as it was; in both
\* cases the object stays the next one of the walk and nothing is opened,
\* written or called after the failure but by a new Run.
C14_FailStep ==
    /\ (ReadsObject /\ NextContent.corrupt) =>
           /\ runPc' = "failed"
           /\ calls' = calls
           /\ db' = db
           /\ startAfterNum' = startAfterNum
           /\ remaining' = remaining
    /\ (ReadsObject /\ ~NextContent.corrupt /\ runPc' = "failed") =>
           /\ Len(calls') = Len(calls) + 1
           /\ startAfterNum' = startAfterNum
           /\ remaining' = remaining
    /\ runPc = "failed" =>
           /\ runPc' = "walking"
           /\ calls' = <<>>
           /\ opened' = {}
           /\ db' = db

C14_FailureAborts == [][C14_FailStep]_vars

\* Run has failed at an object that does not decode and that holds requests
\* above the tracker, after it wrote an earlier object and with a later one
\* still to come.
C14_Witness ==
    /\ runPc = "failed"
    /\ Len(remaining) >= 2
    /\ ~NextParsed.err
    /\ ~(NextParsed.first > startAfterNum + 1)
    /\ NextContent.corrupt
    /\ \E n \in 1..Len(NextContent.requests) : NextContent.requests[n].Height > startAfterNum
    /\ Len(calls) = 1
    /\ Head(remaining) \in opened

\* ---------------------------------------------------------------------------
\* C19
\* ---------------------------------------------------------------------------

\* C19: the step that writes an object with success leaves the tracker at the
\* object's last block; no step decreases the tracker; and the step of an
\* object that is skipped, or at which Run fails, leaves it as it was.
C19_TrackerStep ==
    /\ (ReadsObject /\ runPc' = "walking") => startAfterNum' = NextParsed.last
    /\ startAfterNum' >= startAfterNum
    /\ (AtObject /\ ~NextParsed.err /\ NextParsed.last <= startAfterNum) =>
           startAfterNum' = startAfterNum
    /\ (AtObject /\ runPc' = "failed") => startAfterNum' = startAfterNum

C19_TrackerAdvances == [][C19_TrackerStep]_vars

\* Run has returned after it wrote two objects and skipped one, and the
\* tracker is at the last block of the second one, above where it started.
C19_Witness ==
    /\ runPc = "returned"
    /\ Len(calls) = 2
    /\ startAfterNum = parseFileName(calls[2].name).last
    /\ calls[1].startAfter < parseFileName(calls[1].name).last
    /\ parseFileName(calls[1].name).last < startAfterNum
    /\ \E o \in objects[shardIndex] : o.name \notin opened

\* ---------------------------------------------------------------------------
\* C16
\* ---------------------------------------------------------------------------

\* The request at height h is applied in full: its ROWS are in the backend
\* and the watermark is at or above it.
AppliedInFull(h) ==
    /\ BlockItems(InjectRequest(h)) \subseteq db
    /\ FetchLastWrittenBlock(db, shardIndex) >= h

\* The request at height h is not applied at all.
NotApplied(h) ==
    /\ BlockItems(InjectRequest(h)) \cap db = {}
    /\ FetchLastWrittenBlock(db, shardIndex) < h

\* C16: once the injector has stopped on a shutdown, every WriteRequest is
\* applied in full or not at all: none has its watermark in the backend
\* without its ROWS, and none has a part of its mutations only.
C16_ShutdownAtBoundary ==
    runPc = "terminated" => \A h \in Heights : AppliedInFull(h) \/ NotApplied(h)

\* ---------------------------------------------------------------------------
\* C18
\* ---------------------------------------------------------------------------

\* The tables of which the running Flush has put a mutation.
PutTablesOf == {f[1] : f \in flushed}

\* C18: while a Flush runs, a mutation of INDEX is put only when every
\* mutation of ROWS is, and one of LAST only when every mutation of ROWS and
\* of INDEX is.
C18_OrderState ==
    pc \in {"flush", "failed"} =>
        /\ TblPrefixIndex \in PutTablesOf => Unput(TblPrefixRows) = {}
        /\ TblPrefixLast \in PutTablesOf =>
               Unput(TblPrefixRows) = {} /\ Unput(TblPrefixIndex) = {}

\* C18: the step that ends a Flush with success is its FlushPuts: it comes
\* when every mutation of the batch is put, it leaves every put durable and
\* the batch reset; no other step of a running Flush changes the batch, and a
\* Flush that fails leaves it as it is.
C18_BarrierStep ==
    /\ (pc = "flush" /\ pc' = "idle") =>
           /\ \A table \in Tables : Unput(table) = {}
           /\ \A n \in 1..Len(staged) : Get(db', staged[n].key) # Nil
           /\ staged' = <<>>
           /\ batch' = Reset
    /\ (pc = "flush" /\ pc' # "idle" /\ pc' # "crashed") => batch' = batch
    /\ (pc = "flush" /\ flushed' # flushed /\ pc' = "flush") =>
           /\ Len(staged') = Len(staged) + 1
           /\ db' = db

C18_FlushOrder == [](C18_OrderState) /\ [][C18_BarrierStep]_vars

\* A Flush has put mutations of the three tables and is at its FlushPuts.
C18_Witness ==
    /\ pc = "flush"
    /\ PutTablesOf = Tables
    /\ \A table \in Tables : Unput(table) = {}
    /\ Len(staged) >= 3

\* ---------------------------------------------------------------------------
\* C20
\* ---------------------------------------------------------------------------

\* The batch of the blocks from..to of the chain.
RECURSIVE BatchOfBlocks(_, _)
BatchOfBlocks(from, to) ==
    IF to < from THEN Reset
    ELSE LET b == writeBlock(BatchOfBlocks(from, to - 1), BlockOf(to, chain[to].repeat), Unsharded)
         IN IF chain[to].indexed
            THEN SetIndex(b, KeyForIndex(Tablet1, to), BlockIndex(to))
            ELSE b

\* C20: flushing the batch a second time leaves the backend as the first
\* Flush left it; and when the writer, that after each crash starts again from
\* the durable watermark and puts again mutations that were durable already,
\* has the last block durable, the backend is the one in which every block
\* was flushed once.
C20_ReapplyIdempotent ==
    /\ FlushedStore(FlushedStore(db, batch), batch) = FlushedStore(db, batch)
    /\ FetchLastWrittenBlock(db, Unsharded) = BatchBlocks =>
           db = FlushedStore({}, BatchOfBlocks(1, BatchBlocks))

\* After a crash that left a row durable and the watermark below it, the
\* writer has written the block again and its Flush has put the same row
\* again; with these puts durable the backend is the one of blocks flushed
\* once.
C20_Witness ==
    /\ pc = "flush"
    /\ FlushAt = 0
    /\ FetchLastWrittenBlock(db, Unsharded) < BatchBlocks
    /\ \E n \in 1..Len(staged) :
           /\ staged[n].key[1] = TblPrefixRows
           /\ staged[n] \in db
    /\ PutAll(db, staged) = FlushedStore({}, BatchOfBlocks(1, BatchBlocks))

\* ---------------------------------------------------------------------------
\* C21
\* ---------------------------------------------------------------------------

\* The backend holds every mutation of the batch b.
HoldsBatch(items, b) ==
    \A table \in Tables : \A m \in b.tableMutations[table] :
        Get(items, packKey(table, m.key)) = m.value

\* C21: the step at which a Put or FlushPuts fails ends the Flush with an
\* error and leaves the batch, its three tables and its count, and the
\* backend as they were; no step of a running Flush but the one that ends it
\* with success changes the batch; after the failure no put is made until
\* Flush is called again; the Flush called again has every mutation of the
\* batch to put, and when it ends with success the backend holds them all.
C21_FailStep ==
    /\ (pc = "flush" /\ pc' = "failed") =>
           /\ batch' = batch
           /\ batch'.count = batch.count
           /\ staged' = staged
           /\ db' = db
    /\ (pc = "flush" /\ pc' = "flush") => batch' = batch
    /\ pc = "failed" =>
           /\ Len(staged') <= Len(staged)
           /\ flushed' = flushed \/ flushed' = {}
           /\ pc' # "crashed" => batch' = batch
    /\ (pc = "failed" /\ pc' = "flush") =>
           \A table \in Tables : batch.tableMutations[table] =
               {m \in batch'.tableMutations[table] : <<table, m.key>> \notin flushed'}
    /\ (pc = "flush" /\ pc' = "idle") => HoldsBatch(db', batch)

C21_FailureKeepsBatch == [][C21_FailStep]_vars

\* A Flush failed after a put, Flush was called again and has put every
\* mutation again: the backend holds a put twice, and the batch is not empty.
C21_Witness ==
    /\ pc = "flush"
    /\ FlushAt = 0
    /\ batch.count > 0
    /\ \E i \in 1..Len(staged) : \E j \in 1..Len(staged) : i < j /\ staged[i] = staged[j]

\* ---------------------------------------------------------------------------
\* C22
\* ---------------------------------------------------------------------------

\* The INDEX rows of the backend at or after keyStart, in key order, with the
\* keys the callers use.
IndexRowsFrom(keyStart) ==
    LET its == SortByKey({i \in db : /\ i.key[1] = TblPrefixIndex
                                      /\ ~LexLess(i.key, packKey(TblPrefixIndex, keyStart))})
    IN [n \in 1..Len(its) |-> Item(SubSeq(its[n].key, 2, Len(its[n].key)), its[n].value)]

\* C22: FetchIndex returns the first INDEX row at or after keyStart, key and
\* snapshot, when the key of that row starts with prefixKey, and ErrNotFound
\* when there is no such row or when its key does not start with prefixKey;
\* the key it returns starts with prefixKey.
C22_FetchIndex ==
    \A tablet \in Tablets : \A h \in QueryHeights :
        LET rows == IndexRowsFrom(KeyForIndex(tablet, h))
            r == FetchIndex(db, tablet, tablet, KeyForIndex(tablet, h))
        IN IF rows # <<>> /\ HasPrefix(rows[1].key, tablet)
           THEN /\ r.err = "nil"
                /\ r.rowKey = rows[1].key
                /\ r.rawIndex = rows[1].value
                /\ HasPrefix(r.rowKey, tablet)
           ELSE r.err = "ErrNotFound"

\* ---------------------------------------------------------------------------
\* C23
\* ---------------------------------------------------------------------------

\* The number of keys the batch holds over its three tables.
BufferedKeys ==
    Cardinality(UNION {{<<table, m.key>> : m \in batch.tableMutations[table]} : table \in Tables})

\* C23: the count of the batch is the number of Set calls made since the last
\* Reset, a call on a key that is pending already included; it is at least the
\* number of keys the three tables hold; and right after a Flush that met no
\* error it is 0 with the three tables empty.
C23_CountOfCalls ==
    /\ batch.count = Len(sets) - LastFlushAt
    /\ batch.count >= BufferedKeys
    /\ LastFlushAt = Len(sets) =>
           batch.count = 0 /\ \A table \in Tables : batch.tableMutations[table] = {}

\* After a Flush one key of ROWS was set three times: the count is 3 and the
\* batch holds one key.
C23_Witness ==
    /\ Len(sets) = 4
    /\ sets[1] = FlushCall
    /\ \A n \in 2..4 : sets[n].op = "SetRow" /\ sets[n].key = <<1>>
    /\ batch.count = 3
    /\ BufferedKeys = 1

\* ---------------------------------------------------------------------------
\* C24
\* ---------------------------------------------------------------------------

\* The most characters of the names enumerated in full.
MaxNameLen == 4

NameChars == {0, 1, Dash, Letter}

RECURSIVE NamesOfLen(_)
NamesOfLen(n) ==
    IF n = 0 THEN {<<>>} ELSE {s \o <<c>> : s \in NamesOfLen(n - 1), c \in NameChars}

\* Numbers around 2^32: the greatest of 32 bits, its neighbours, the same
\* with leading zeros, numbers of ten and eleven digits.
BoundaryNumbers ==
    {MaxUint32Digits, OverUint32Digits,
     <<4, 2, 9, 4, 9, 6, 7, 2, 9, 4>>,
     <<0, 0>> \o MaxUint32Digits, <<0, 0>> \o OverUint32Digits,
     <<4, 2, 9, 5, 0, 0, 0, 0, 0, 0>>, <<3, 9, 9, 9, 9, 9, 9, 9, 9, 9>>,
     <<9, 9, 9, 9, 9, 9, 9, 9, 9>>, <<1, 0, 0, 0, 0, 0, 0, 0, 0, 0, 0>>}

EnumeratedNames ==
    UNION {NamesOfLen(n) : n \in 0..MaxNameLen}
        \cup {a \o <<Dash>> \o b : a, b \in BoundaryNumbers \cup {<<1>>}}
        \cup {a \o <<Dash>> \o b \o <<Dash>> \o <<1>> : a, b \in {MaxUint32Digits, <<1>>}}

\* s is a non-empty string of decimal digits.
IsDecimal(s) == s # <<>> /\ \A i \in 1..Len(s) : s[i] \in 0..9

\* The number s denotes is at most 2^32 - 1 = 42949 * 10^5 + 67295.
InUint32(s) ==
    LET digits == StripZeros(s)
        n == Len(digits)
        high == DecimalValue(SubSeq(digits, 1, n - 5))
        low == DecimalValue(SubSeq(digits, n - 4, n))
    IN \/ n <= 5
       \/ n <= 10 /\ (high < 42949 \/ (high = 42949 /\ low <= 67295))

\* name is two decimal numbers of 32 bits separated by a single '-'.
TwoNumbers(name) ==
    \E i \in 1..Len(name) :
        LET left == SubSeq(name, 1, i - 1)
            right == SubSeq(name, i + 1, Len(name))
        IN /\ name[i] = Dash
           /\ IsDecimal(left) /\ InUint32(left)
           /\ IsDecimal(right) /\ InUint32(right)

\* parseFileName accepts exactly the names of two numbers among the names
\* enumerated, and returns the two numbers.
EnumeratedNamesParse ==
    /\ \A name \in EnumeratedNames : parseFileNameError(name) <=> ~TwoNumbers(name)
    /\ \A first, last \in 0..(MaxHeight + 9) : \A width \in NameDigits..(NameDigits + 1) :
           parseFileName(Pad(first, width) \o <<Dash>> \o Pad(last, width))
               = [first |-> first, last |-> last, err |-> FALSE]
    /\ parseFileName(<<2, 1, 4, 7, 4, 8, 3, 6, 4, 7>> \o <<Dash, 0, 0, 7>>)
           = [first |-> 2147483647, last |-> 7, err |-> FALSE]

\* The same of the names of the directory Run walks.
C24_Names ==
    /\ EnumeratedNamesParse
    /\ \A o \in objects[shardIndex] : parseFileNameError(o.name) <=> ~TwoNumbers(o.name)

\* The callback's step at a name that does not parse ends Run with the
\* error: the object is not opened, nothing is written, the tracker stays.
C24_AbortStep ==
    (runPc = "walking" /\ remaining # <<>> /\ parseFileNameError(Head(remaining)))
        => /\ runPc' = "failed"
           /\ remaining' = remaining
           /\ opened' = opened
           /\ calls' = calls
           /\ db' = db
           /\ startAfterNum' = startAfterNum

\* C24: parseFileName accepts exactly the names made of two decimal numbers
\* of [0, 2^32 - 1] separated by a single '-' and returns (first, last); any
\* other name yields an error, and on that error Run aborts before it opens
\* or applies the object.
C24_ParseOrAbort == [](C24_Names) /\ [][C24_AbortStep]_vars

\* Run has failed at the name whose second number is 2^32, after it applied
\* an earlier object; the object of that name, one of several still to be
\* walked, was never opened.
C24_Witness ==
    /\ runPc = "failed"
    /\ Len(remaining) >= 2
    /\ Head(remaining) = Pad(1, NameDigits) \o <<Dash>> \o OverUint32Digits
    /\ parseFileNameError(Head(remaining))
    /\ Head(remaining) \notin opened
    /\ Len(calls) = 1
    /\ \E o \in objects[shardIndex] : o.name \in opened /\ ~parseFileNameError(o.name)

====
